---- MODULE Spec2Model ----
(***************************************************************************)
(* A model of the portfolio optimizer of brunofvincensi/TCC (backend):     *)
(*   - the Configuration Store (models/hyperparameter_config.py) with the  *)
(*     persist step of the tuning service and the fallback lookup;         *)
(*   - the grid search of the tuning service;                              *)
(*   - the simplex operators and the optimizer's composition.              *)
(* Each part has its own specification (SpecStore, SpecGrid, SpecGA); the  *)
(* variables of the other parts keep their initial value.                  *)
(***************************************************************************)
EXTENDS Integers, Sequences, FiniteSets, TLC

VARIABLES
    \* ---- Configuration Store (table hyperparameter_configs) ----
    store,        \* the committed rows
    version,      \* number of commits that changed the table
    \* ---- the writer: save_optimal_configs_to_db / deactivate_all ----
    svPc,         \* "idle" | "row" | "commit"
    svDf,         \* df_optimal: the rows being persisted
    svI,          \* index of the row the loop is at
    svPend,       \* session: rows added, not yet committed
    svFlushed,    \* how many of svPend have been flushed (INSERTed)
    svDeact,      \* session: ids of rows whose is_active was set to False
    svOutcome,    \* result of the last call: "none" | "ok" | "IntegrityError" | "noapp"
    svCalls,      \* number of writer calls made
    svRerunOf,    \* outcome of the previous save call when it was given the same
                  \* df_optimal as this one, else "none"
    \* ---- the reader: get_optimal_config / get_optimal_config_from_db ----
    rdPc,         \* "idle" | "exact" | "probe" | "fallback" | "closest" | "done"
    rdN,          \* num_ativos asked for
    rdP,          \* nivel_risco of the current (possibly recursive) call
    rdP0,         \* nivel_risco of the outermost call
    rdK,          \* index into Offsets
    rdVer,        \* version of the table when the lookup started
    rdQueries,    \* number of queries this lookup has run
    rdResult,     \* <<>> (None) or <<row>>
    rdAgain,      \* what a second call with the same arguments, reading the same
                  \* rows in each of its queries, may return
    rdHp,         \* what get_optimal_config_from_db returned: <<>> or <<dict>>
    rdVia,        \* "service": get_optimal_config_from_db was called with an
                  \* app and calls get_optimal_config; "noapp": without one
    \* ---- grid_search of the tuning service ----
    gsPc,         \* "idle" | "config" | "run" | "summary" | "done"
    gsPops,       \* population_sizes
    gsGens,       \* generation_counts
    gsNRuns,      \* n_runs
    gsTimeLimit,  \* time_limit: None or Some(seconds)
    gsConfigs,    \* configs
    gsIdx,        \* index into configs of the configuration the loop is at
    gsRun,        \* run (0-based) of the inner loop
    gsElapsed,    \* time.time() - start_time
    gsFailures,   \* runs of this call that raised
    gsResults,    \* results (local to the call)
    gsSelf,       \* self.results
    gsSummary,    \* the summary returned, a sequence of rows
    gsOutcome,    \* "none" | "ok" | "KeyError"
    \* ---- adaptive_tuning_by_num_assets of the tuning service ----
    tnPc,         \* "idle" | "asset" | "grid" | "finish" | "done"
    tnAssetRanges,\* asset_ranges
    tnNivelRisco, \* nivel_risco
    tnI,          \* index into asset_ranges of the iteration the loop is at
    tnIds,        \* ids_ativos of the iteration
    tnLaunched,   \* the optimization runs launched so far: the arguments
                  \* grid_search was given and the service the run built
    tnOptimal,    \* optimal_configs
    tnOutcome,    \* "none" | "empty" | "saved"
    \* ---- QualityMetrics and ConvergenceTracker ----
    trHistory,    \* ConvergenceTracker.history, one record per update
    trMetrics,    \* the dict calculate_all_metrics returned last, or None
    trWindow,     \* window of the latest get_convergence_generation
    trThreshold,  \* its threshold, a fraction <<num, den>>
    trResult,     \* its result: None or Some(generation)
    trAsked,      \* TRUE while no update has followed that query
    trConverged,  \* the answer of has_converged to the same question, or None
    \* ---- _escolher_melhor_carteira of the optimizer and of the backtest ----
    slObjetivos,  \* objetivos: the objective rows of the front
    slNivelRisco, \* the risk profile
    slOtimizador, \* what Nsga2OtimizacaoService._escolher_melhor_carteira did
    slBacktest,   \* what BacktestService._escolher_melhor_carteira did
    \* ---- PersonalizedPortfolioProblem._calcular_cvar ----
    cvPerdas,     \* perdas_validas: the finite losses of the portfolio
    cvAlpha,      \* alpha, a fraction <<num, den>>
    cvResult,     \* the value returned
    \* ---- Nsga2OtimizacaoService.otimizar: data, loop, callback, result ----
    otPc,         \* "idle" | "evolve" | "notify" | "done"
    otRestringidos, \* self.ids_ativos_restringidos
    otNivelRisco, \* self.nivel_risco
    otPrazoAnos,  \* self.prazo_anos
    otBanco,      \* HistoricoPrecos: for each asset the months it has a row for
    otAtivos,     \* self.ativos_para_otimizar
    otProblema,   \* None, or Some of the arguments the problem was built with
    otNGen,       \* generations
    otGen,        \* algorithm.n_gen: the generations completed
    otPopulation, \* the objective rows of algorithm.pop
    otEvaluations,\* the number of genotypes evaluated so far
    otTracker,    \* None, or Some(history) of the tracker attached
    otOutcome,    \* "none" | "ValueError" | "KeyError" | "ok"
    otComposicao, \* the assets of the composition returned
    \* ---- one call of SimplexCrossover._do or SimplexMutation._do ----
    opKind,       \* "none" | "crossover" | "mutation"
    opX,          \* the individuals given, each divided by its sum
    opIdx,        \* per individual mutated: <<idx1, idx2>> (1-based)
    opCoef,       \* beta of the mating, or delta_q per individual mutated
    opRaw,        \* the children / individuals before np.maximum(., 0)
    opOut,        \* the children / individuals returned
    \* ---- one call of QualityMetrics.calculate_hypervolume ----
    hvAsked,      \* TRUE once the call was made
    hvFront,      \* pareto_front
    hvRefPoint,   \* ref_point, in tenths
    hvSides,      \* ref_point - min_bounds, in tenths
    hvPoints,     \* random_points, in twentieths
    hvResult,     \* the hypervolume returned, times 1000 * HvSamples
    \* ---- one HyperparameterTuningService through an adaptive tuning ----
    ssPc,         \* "tuning" | "done"
    ssResults,    \* self.results
    ssCalls,      \* grid_search calls made
    ssSummary,    \* the summary the last grid_search call returned, <<>> if it raised
    ssOptimal,    \* optimal_configs
    ssOutcome,    \* "none" | "empty" | "saved" | "IntegrityError"
    ssBest,       \* what get_best_configuration returned: None or Some(config)
    ssAsked,      \* TRUE while no grid_search has followed that query
    ssExported,   \* None, or Some(results_dict) that export_results wrote
    \* ---- one call of convergence_analysis ----
    caPc,         \* "idle" | "done"
    caArgs,       \* the arguments of the call
    caRuns,       \* calls of otimizar made
    caTrackers,   \* ConvergenceTracker objects created
    caOutcome,    \* "none" | "AttributeError" | "TypeError" | "ValueError" | "ok"
    caAnalysis,   \* None or Some(analysis)
    \* ---- one call of BacktestService.executar_backtest ----
    btPc,         \* "idle" | "loop" | "done" | "IndexError" | "diverges"
    btArgs,       \* the arguments of the call
    btHistorico,  \* the rows of HistoricoPrecos: [id_ativo, data]
    btDatas,      \* datas_rebalanceamento
    btI,          \* the loop index i, from 1
    btPeriodos,   \* per iteration: the dates, the rows read to optimize, the
                  \* ids of carteira_atual, the rows read to score
    btResultados, \* self.resultados: the data_referencia of each result
    \* ---- the labelling of a composition ----
    lbVia,        \* "none" | "otimizar" | "backtest"
    lbAtivos,     \* the assets in the order the query returned them
    lbTickers,    \* the columns of df_retornos
    lbPesos,      \* the selected genotype, in thousandths
    lbComposicao, \* the composition before normalisation
    \* ---- Nsga2OtimizacaoService.otimizar and the simplex operators ----
    gaPc,         \* "idle" | "evolve" | "mutate" | "survive" | "done"
    gaNGen,       \* generations (the termination ('n_gen', generations))
    gaGen,        \* the generation the population belongs to
    gaPop,        \* the population: a set of genotypes
    gaKids,       \* the offspring of the mating, before mutation
    gaOff,        \* the offspring after mutation
    gaBest,       \* pesos_otimos: <<>> or <<genotype>>
    gaComposicao, \* composicao_final
    gaOutcome     \* "none" | "ok" | "ValueError"

storeVars == <<store, version, svPc, svDf, svI, svPend, svFlushed, svDeact,
               svOutcome, svCalls, svRerunOf,
               rdPc, rdN, rdP, rdP0, rdK, rdVer, rdQueries, rdResult, rdAgain,
               rdHp, rdVia>>

gridVars == <<gsPc, gsPops, gsGens, gsNRuns, gsTimeLimit, gsConfigs, gsIdx, gsRun,
              gsElapsed, gsFailures, gsResults, gsSelf, gsSummary, gsOutcome>>

gaVars == <<gaPc, gaNGen, gaGen, gaPop, gaKids, gaOff, gaBest, gaComposicao, gaOutcome>>

tuneVars == <<tnPc, tnAssetRanges, tnNivelRisco, tnI, tnIds, tnLaunched, tnOptimal,
              tnOutcome>>
trackVars == <<trHistory, trMetrics, trWindow, trThreshold, trResult, trAsked, trConverged>>
selVars == <<slObjetivos, slNivelRisco, slOtimizador, slBacktest>>
cvarVars == <<cvPerdas, cvAlpha, cvResult>>
otVars == <<otPc, otRestringidos, otNivelRisco, otPrazoAnos, otBanco, otAtivos,
            otProblema, otNGen, otGen, otPopulation, otEvaluations, otTracker,
            otOutcome, otComposicao>>
opVars == <<opKind, opX, opIdx, opCoef, opRaw, opOut>>
hvVars == <<hvAsked, hvFront, hvRefPoint, hvSides, hvPoints, hvResult>>
ssVars == <<ssPc, ssResults, ssCalls, ssSummary, ssOptimal, ssOutcome, ssBest, ssAsked,
           ssExported>>
caVars == <<caPc, caArgs, caRuns, caTrackers, caOutcome, caAnalysis>>
btVars == <<btPc, btArgs, btHistorico, btDatas, btI, btPeriodos, btResultados>>
lbVars == <<lbVia, lbAtivos, lbTickers, lbPesos, lbComposicao>>
vars == <<storeVars, gridVars, gaVars, tuneVars, trackVars, selVars, cvarVars, otVars, opVars, hvVars, ssVars, caVars, btVars, lbVars>>

----------------------------------------------------------------------------
\* Bounds and input sets of the store model

MaxWriterCalls == 2   \* save / deactivate calls in one behaviour

NumAtivosTuned == {10, 14, 20}        \* asset counts that get tuned
\* asset_ranges of a tuning: one, two, or the same asset count twice
AssetRanges == {<<10>>, <<14>>, <<20>>, <<10, 20>>, <<10, 10>>}
NumAtivosAsked == {10, 12, 17}        \* asset counts that are looked up
Perfis == {"neutro", "moderado"}      \* nivel_risco values in use
PopulationSizesTuned == {50, 100}     \* population_size of a tuned row

\* generations of a tuned row (one per population size keeps the table small)
GenerationsFor(pop) == pop \div 2

----------------------------------------------------------------------------
\* Option values: Python's None is <<>>, a value x is <<x>>

None == <<>>

Some(x) == <<x>>

IsNone(o) == o = <<>>

\* otimizar()'s default hyperparameters and the column defaults
DefaultPopulationSize == 100
DefaultGenerations == 50
DefaultCrossoverEta == 15
DefaultMutationEta == 20

----------------------------------------------------------------------------
\* The table.  A row: [id, num_ativos, nivel_risco, population_size,
\* generations, crossover_eta, mutation_eta, is_active].

Key(r) == <<r.num_ativos, r.nivel_risco>>

\* a table without the constraint
NoConstraint(rows, r) == TRUE

\* UniqueConstraint('num_ativos', 'nivel_risco'): may row r be INSERTed into rows?
UniqueOk(rows, r) == \A x \in rows : Key(x) # Key(r)

\* HyperparameterConfig.query.filter_by(num_ativos, nivel_risco, is_active=True)
ActiveAt(rows, n, p) ==
    {x \in rows : x.num_ativos = n /\ x.nivel_risco = p /\ x.is_active}

\* a filter that lets inactive rows through
RowsIgnoringIsActive(rows) == rows

\* HyperparameterConfig.query.filter_by(is_active=True)
ActiveRows(rows) == {x \in rows : x.is_active}

HasActive(rows, k) == \E x \in rows : Key(x) = k /\ x.is_active

Abs(i) == IF i < 0 THEN -i ELSE i

\* a probe order that tries the smaller count of each pair first
OffsetsSmallerFirst == <<0, -1, 1, -2, 2>>

\* the probe order of get_optimal_config
Offsets == <<0, 1, -1, 2, -2>>

\* .first() without the order_by: any active row
AnyActiveRow(rows, n) == {x \in rows : x.is_active}

\* .order_by(abs(num_ativos - n)).first(): the rows the database may return.
\* SQL leaves the order among equal sort keys open, so every row of least
\* distance is a possible first row.
ClosestCandidates(rows, n) ==
    {x \in ActiveRows(rows) :
        \A y \in ActiveRows(rows) :
            Abs(x.num_ativos - n) <= Abs(y.num_ativos - n)}

\* a new HyperparameterConfig built from a row of df_optimal
NewConfig(id, dfRow) ==
    [id |-> id,
     num_ativos |-> dfRow.num_ativos,
     nivel_risco |-> dfRow.nivel_risco,
     population_size |-> dfRow.population_size,
     generations |-> dfRow.generations,
     crossover_eta |-> DefaultCrossoverEta,
     mutation_eta |-> DefaultMutationEta,
     is_active |-> TRUE]

\* a row of df_optimal as adaptive_tuning_by_num_assets builds it
DfRow(n, p, s) ==
    [num_ativos |-> n, nivel_risco |-> p, population_size |-> s,
     generations |-> GenerationsFor(s)]

\* The df_optimal a caller may pass: one row per entry of asset_ranges, all of
\* one nivel_risco (and, to keep the input set small, one tuned population).
DfChoices ==
    {[i \in 1..Len(ns) |-> DfRow(ns[i], p, s)] :
        ns \in AssetRanges, p \in Perfis, s \in PopulationSizesTuned}

\* the next primary key
NextId(rows) == Cardinality(rows) + 1

----------------------------------------------------------------------------
\* The writer: HyperparameterTuningService.save_optimal_configs_to_db

\* The session's flush: every pending INSERT, in order, against the committed
\* rows and the rows this transaction inserted before it.
FlushOk(rows, pend, flushed) ==
    \A j \in (flushed + 1)..Len(pend) :
        UniqueOk(rows \cup {pend[i] : i \in 1..(j - 1)}, pend[j])

\* the rows of the table after the transaction's UPDATEs and INSERTs
Committed(rows, pend, deact) ==
    {IF x.id \in deact THEN [x EXCEPT !.is_active = FALSE] ELSE x : x \in rows}
        \cup {pend[i] : i \in 1..Len(pend)}

\* an exception after which the UPDATEs already flushed stay in the table, as
\* they would had each statement been committed on its own
SaveRaiseKeepsFlushed ==
    /\ svPc' = "idle"
    /\ svOutcome' = "IntegrityError"
    /\ store' = Committed(store, <<>>, svDeact)
    /\ version' = version + 1
    /\ svPend' = <<>>
    /\ svFlushed' = 0
    /\ svDeact' = {}
    /\ svI' = 1
    /\ UNCHANGED <<svDf, svCalls, svRerunOf>>

\* the exception leaves the app context: the session is removed (rollback)
SaveRaise ==
    /\ svPc' = "idle"
    /\ svOutcome' = "IntegrityError"
    /\ svPend' = <<>>
    /\ svFlushed' = 0
    /\ svDeact' = {}
    /\ svI' = 1
    /\ UNCHANGED <<store, version, svDf, svCalls, svRerunOf>>

\* "if not self.app: return"
SaveNoApp ==
    /\ svPc = "idle"
    /\ svCalls < MaxWriterCalls
    /\ svCalls' = svCalls + 1
    /\ svOutcome' = "noapp"
    /\ svRerunOf' = "none"
    /\ UNCHANGED <<store, version, svPc, svDf, svI, svPend, svFlushed, svDeact>>

SaveBegin(df) ==
    /\ svPc = "idle"
    /\ svCalls < MaxWriterCalls
    /\ svCalls' = svCalls + 1
    /\ svRerunOf' = IF svOutcome \in {"ok", "IntegrityError"} /\ svDf = df
                    THEN svOutcome ELSE "none"
    /\ svDf' = df
    /\ svPend' = <<>>
    /\ svFlushed' = 0
    /\ svDeact' = {}
    /\ svI' = 1
    /\ svPc' = "row"
    /\ svOutcome' = "none"
    /\ UNCHANGED <<store, version>>

\* one iteration of "for _, row in df_optimal.iterrows()"
SaveRow ==
    /\ svPc = "row"
    /\ IF ~FlushOk(store, svPend, svFlushed)
       THEN SaveRaise  \* the query autoflushes; the INSERT violates the constraint
       ELSE LET row == svDf[svI]
                k == <<row.num_ativos, row.nivel_risco>>
                inStore == {x.id : x \in {y \in store : Key(y) = k}}
                inPend == {svPend[i].id : i \in {j \in 1..Len(svPend) : Key(svPend[j]) = k}}
                new == NewConfig(NextId(store) + Len(svPend), row)
            IN  \* existing = query.filter_by(...).first(): any one of the rows
                \* of the key, 0 when there is none
                /\ \E existing \in IF inStore \cup inPend = {} THEN {0} ELSE inStore \cup inPend :
                      /\ svDeact' = svDeact \cup ({existing} \cap inStore)
                      /\ svPend' = Append([i \in 1..Len(svPend) |->
                                              IF svPend[i].id = existing
                                              THEN [svPend[i] EXCEPT !.is_active = FALSE]
                                              ELSE svPend[i]], new)
                /\ svFlushed' = Len(svPend)
                /\ svI' = svI + 1
                /\ svPc' = IF svI + 1 > Len(svDf) THEN "commit" ELSE "row"
                /\ UNCHANGED <<store, version, svDf, svOutcome, svCalls,
                               svRerunOf>>

\* db.session.commit(): flush, then make the transaction visible at once
SaveCommit ==
    /\ svPc = "commit"
    /\ IF ~FlushOk(store, svPend, svFlushed)
       THEN SaveRaise
       ELSE /\ store' = Committed(store, svPend, svDeact)
            /\ version' = version + 1
            /\ svPc' = "idle"
            /\ svOutcome' = "ok"
            /\ svPend' = <<>>
            /\ svFlushed' = 0
            /\ svDeact' = {}
            /\ svI' = 1
            /\ UNCHANGED <<svDf, svCalls, svRerunOf>>

\* HyperparameterConfig.deactivate_all_for_num_ativos(num_ativos, nivel_risco);
\* nivel_risco = "" stands for None: every profile
DeactivateAll(n, p) ==
    /\ svPc = "idle"
    /\ svCalls < MaxWriterCalls
    /\ svCalls' = svCalls + 1
    /\ LET configs == {x \in store : x.num_ativos = n /\ (p = "" \/ x.nivel_risco = p)}
           after == {IF x \in configs THEN [x EXCEPT !.is_active = FALSE] ELSE x :
                        x \in store}
       IN  /\ store' = after
           /\ version' = IF after = store THEN version ELSE version + 1
    /\ UNCHANGED <<svPc, svDf, svI, svPend, svFlushed, svDeact, svOutcome,
                   svRerunOf>>

writerVars == <<store, version, svPc, svDf, svI, svPend, svFlushed, svDeact,
                svOutcome, svCalls, svRerunOf>>

readerVars == <<rdPc, rdN, rdP, rdP0, rdK, rdVer, rdQueries, rdResult, rdAgain,
               rdHp, rdVia>>

----------------------------------------------------------------------------
\* The reader: HyperparameterConfig.get_optimal_config, one query per step

\* get_optimal_config_from_db's return value for a row
ToDict(row) ==
    [population_size |-> row.population_size,
     generations |-> row.generations,
     crossover_eta |-> row.crossover_eta,
     mutation_eta |-> row.mutation_eta]

\* the lookup returns `result` (None or a row); `again` is what the same query
\* may return to a second call
LookupDone(result, again) ==
    /\ rdPc' = "done"
    /\ rdResult' = result
    /\ rdAgain' = again
    /\ rdHp' = IF rdVia = "service" /\ ~IsNone(result)
               THEN Some(ToDict(result[1])) ELSE None
    /\ rdK' = 1
    /\ rdQueries' = rdQueries + 1
    /\ UNCHANGED <<rdN, rdP, rdP0, rdVer, rdVia>>

\* a call of get_optimal_config_from_db(n, p, app): without app it returns None
\* at once, with app it calls get_optimal_config(n, p)
LookupBegin(n, p, via) ==
    /\ rdPc = "idle"
    /\ rdN' = n
    /\ rdP' = p
    /\ rdP0' = p
    /\ rdK' = 1
    /\ rdVer' = version
    /\ rdQueries' = 0
    /\ rdVia' = via
    /\ rdResult' = None
    /\ rdAgain' = None
    /\ rdHp' = None
    /\ rdPc' = IF via = "noapp" THEN "done" ELSE "exact"
    /\ UNCHANGED writerVars

\* the exact query, .first()
LookupExact ==
    /\ rdPc = "exact"
    /\ LET found == ActiveAt(store, rdN, rdP)
       IN  IF found # {}
           THEN \E c, d \in found : LookupDone(Some(c), Some(d))
           ELSE /\ rdPc' = "probe"
                /\ rdK' = 1
                /\ rdQueries' = rdQueries + 1
                /\ UNCHANGED <<rdN, rdP, rdP0, rdVer, rdResult, rdAgain, rdHp, rdVia>>
    /\ UNCHANGED writerVars

\* one iteration of "for offset in [0, 1, -1, 2, -2]"
LookupProbe ==
    /\ rdPc = "probe"
    /\ LET found == ActiveAt(store, rdN + Offsets[rdK], rdP)
       IN  IF found # {}
           THEN \E c, d \in found : LookupDone(Some(c), Some(d))
           ELSE /\ rdPc' = IF rdK = Len(Offsets) THEN "fallback" ELSE "probe"
                /\ rdK' = IF rdK = Len(Offsets) THEN rdK ELSE rdK + 1
                /\ rdQueries' = rdQueries + 1
                /\ UNCHANGED <<rdN, rdP, rdP0, rdVer, rdResult, rdAgain, rdHp, rdVia>>
    /\ UNCHANGED writerVars

\* "if nivel_risco != 'neutro': return get_optimal_config(num_ativos, 'neutro')"
LookupFallback ==
    /\ rdPc = "fallback"
    /\ IF rdP # "neutro"
       THEN /\ rdP' = "neutro"
            /\ rdPc' = "exact"
            /\ rdK' = 1
       ELSE /\ rdPc' = "closest"
            /\ UNCHANGED <<rdP, rdK>>
    /\ UNCHANGED <<rdN, rdP0, rdVer, rdQueries, rdResult, rdAgain, rdHp, rdVia>>
    /\ UNCHANGED writerVars

\* the last query: any active row, ordered by the distance of its num_ativos
LookupClosest ==
    /\ rdPc = "closest"
    /\ LET cands == ClosestCandidates(store, rdN)
       IN  IF cands = {}
           THEN LookupDone(None, None)
           ELSE \E c, d \in cands : LookupDone(Some(c), Some(d))
    /\ UNCHANGED writerVars

\* the caller takes the result
LookupReturn ==
    /\ rdPc = "done"
    /\ rdPc' = "idle"
    /\ rdN' = 0
    /\ rdP' = "neutro"
    /\ rdP0' = "neutro"
    /\ rdK' = 1
    /\ rdVer' = 0
    /\ rdQueries' = 0
    /\ rdResult' = None
    /\ rdAgain' = None
    /\ rdHp' = None
    /\ rdVia' = "service"
    /\ UNCHANGED writerVars

\* the hyperparameters the caller runs otimizar with: the dict's when one came
\* back, otimizar's defaults otherwise
HyperparametersUsed(hp) ==
    IF IsNone(hp)
    THEN [population_size |-> DefaultPopulationSize, generations |-> DefaultGenerations]
    ELSE [population_size |-> hp[1].population_size, generations |-> hp[1].generations]

----------------------------------------------------------------------------
StoreIdle ==
    /\ store = {}
    /\ version = 0
    /\ svPc = "idle"
    /\ svDf = <<>>
    /\ svI = 1
    /\ svPend = <<>>
    /\ svFlushed = 0
    /\ svDeact = {}
    /\ svOutcome = "none"
    /\ svCalls = 0
    /\ svRerunOf = "none"
    /\ rdPc = "idle"
    /\ rdN = 0
    /\ rdP = "neutro"
    /\ rdP0 = "neutro"
    /\ rdK = 1
    /\ rdVer = 0
    /\ rdQueries = 0
    /\ rdResult = None
    /\ rdAgain = None
    /\ rdHp = None
    /\ rdVia = "service"

----------------------------------------------------------------------------
\* The grid search: HyperparameterTuningService.grid_search

\* the arguments of the calls considered
PopulationSizeLists == {<<20>>, <<20, 40>>, <<20, 20>>}
GenerationCountLists == {<<5>>, <<5, 10>>}
NRunsChoices == {1, 2}
TimeLimits == {None, Some(0), Some(1)}
FinalHypervolumes == {1, 2}     \* final_hypervolume of a run, in some unit

\* str(int) as a sequence of characters
DigitChars == <<"0", "1", "2", "3", "4", "5", "6", "7", "8", "9">>

IsDigit(ch) == \E d \in 1..10 : DigitChars[d] = ch

DigitValue(ch) == (CHOOSE d \in 1..10 : DigitChars[d] = ch) - 1

RECURSIVE Str(_)
Str(n) ==
    IF n < 10 THEN <<DigitChars[n + 1]>>
    ELSE Append(Str(n \div 10), DigitChars[(n % 10) + 1])

RECURSIVE ParseInt(_)
ParseInt(ds) ==
    IF ds = <<>> THEN 0
    ELSE 10 * ParseInt(SubSeq(ds, 1, Len(ds) - 1)) + DigitValue(ds[Len(ds)])

\* HyperparameterConfig.__str__: f"pop{population_size}_gen{generations}"
ConfigStr(c) ==
    <<"p", "o", "p">> \o Str(c.population_size)
        \o <<"_", "g", "e", "n">> \o Str(c.generations)

\* str.extract(word(\d+)).astype(int): the digits after the first occurrence
\* of word that is followed by a digit
Extract(s, word) ==
    LET n == Len(word)
        starts == {i \in 1..(Len(s) - n) :
                      SubSeq(s, i, i + n - 1) = word /\ IsDigit(s[i + n])}
        i0 == CHOOSE i \in starts : \A j \in starts : i <= j
        from == i0 + n
        ends == {j \in from..Len(s) : \A k \in from..j : IsDigit(s[k])}
        to == CHOOSE j \in ends : \A k \in ends : k <= j
    IN  ParseInt(SubSeq(s, from, to))

\* the configs list: population sizes outside, generation counts inside
Configs(pops, gens) ==
    [k \in 1..(Len(pops) * Len(gens)) |->
        [population_size |-> pops[((k - 1) \div Len(gens)) + 1],
         generations |-> gens[((k - 1) % Len(gens)) + 1]]]

\* the TuningResult of a run
TuningResult(config, run_number, hv) ==
    [config |-> config, run_number |-> run_number, final_hypervolume |-> hv]

\* TuningResult.to_dict and the two columns _create_summary_statistics adds
DfRowOf(r) ==
    LET str == ConfigStr(r.config)
    IN  [config |-> str,
         run_number |-> r.run_number,
         final_hypervolume |-> r.final_hypervolume,
         population_size |-> Extract(str, <<"p", "o", "p">>),
         generations |-> Extract(str, <<"g", "e", "n">>)]

RECURSIVE SumHv(_, _)
SumHv(df, idx) ==
    IF idx = {} THEN 0
    ELSE LET i == CHOOSE j \in idx : TRUE
         IN  df[i].final_hypervolume + SumHv(df, idx \ {i})

\* groupby(['population_size', 'generations']).agg(...): one row per key; the
\* mean of final_hypervolume is kept as the pair (hv_sum, n)
GroupRows(df) ==
    {LET idx == {i \in 1..Len(df) : <<df[i].population_size, df[i].generations>> = k}
     IN  [population_size |-> k[1], generations |-> k[2],
          hv_sum |-> SumHv(df, idx), n |-> Cardinality(idx)] :
        k \in {<<df[i].population_size, df[i].generations>> : i \in 1..Len(df)}}

KeyLess(a, b) ==
    \/ a.population_size < b.population_size
    \/ a.population_size = b.population_size /\ a.generations < b.generations

\* the rows in the order groupby gives them: ascending by key
GroupbyOrder(rows) ==
    CHOOSE s \in [1..Cardinality(rows) -> rows] :
        \A i, j \in 1..Cardinality(rows) : i < j => KeyLess(s[i], s[j])

\* a.final_hypervolume_mean >= b.final_hypervolume_mean
MeanGeq(a, b) == a.hv_sum * b.n >= b.hv_sum * a.n

\* the rows unsorted
KeepOrder(rows) == {rows}

\* sort_values('final_hypervolume_mean', ascending=False): quicksort is not
\* stable, so rows of equal mean may come in any order
SortValuesDescending(rows) ==
    {s \in [1..Len(rows) -> {rows[i] : i \in 1..Len(rows)}] :
        /\ \A i \in 1..Len(rows) : \E j \in 1..Len(rows) : s[j] = rows[i]
        /\ \A i, j \in 1..Len(rows) : i < j => MeanGeq(s[i], s[j])}

\* _create_summary_statistics(df_results): the summaries it may return
CreateSummaryStatistics(results) ==
    SortValuesDescending(GroupbyOrder(GroupRows([i \in 1..Len(results) |-> DfRowOf(results[i])])))

GridBegin(pops, gens, r, tl) ==
    /\ gsPc = "idle"
    /\ gsPops' = pops
    /\ gsGens' = gens
    /\ gsNRuns' = r
    /\ gsTimeLimit' = tl
    /\ gsConfigs' = Configs(pops, gens)
    /\ gsIdx' = 1
    /\ gsRun' = 0
    /\ gsElapsed' = 0
    /\ gsFailures' = 0
    /\ gsResults' = <<>>
    /\ gsSummary' = <<>>
    /\ gsOutcome' = "none"
    /\ gsPc' = "config"
    /\ UNCHANGED gsSelf

\* the truth value that "if time_limit and ..." gives time_limit: None and 0
\* are false
Truthy(time_limit) == time_limit # None /\ time_limit[1] # 0

\* the head of "for config_idx, config in enumerate(configs)" with the time check
GridNextConfig ==
    /\ gsPc = "config"
    /\ IF gsIdx > Len(gsConfigs)
       THEN gsPc' = "summary"
       ELSE IF Truthy(gsTimeLimit) /\ gsElapsed > gsTimeLimit[1]
            THEN gsPc' = "summary"
            ELSE gsPc' = "run"
    /\ gsRun' = 0
    /\ UNCHANGED <<gsPops, gsGens, gsNRuns, gsTimeLimit, gsConfigs, gsIdx, gsElapsed,
                   gsFailures, gsResults, gsSelf, gsSummary, gsOutcome>>

\* one iteration of "for run in range(n_runs)": the run returns a TuningResult
\* or raises; the runs of a configuration take no time or one unit of time
\* (the clock is followed in the calls that were given a time_limit)
GridRun ==
    /\ gsPc = "run"
    /\ \/ \E hv \in FinalHypervolumes :
            LET result == TuningResult(gsConfigs[gsIdx], gsRun + 1, hv)
            IN  /\ gsResults' = Append(gsResults, result)
                /\ gsSelf' = Append(gsSelf, result)
                /\ UNCHANGED gsFailures
       \/ /\ gsFailures' = gsFailures + 1
          /\ UNCHANGED <<gsResults, gsSelf>>
    /\ IF gsRun + 1 >= gsNRuns
       THEN /\ gsPc' = "config" /\ gsIdx' = gsIdx + 1 /\ gsRun' = 0
            /\ gsElapsed' \in IF gsTimeLimit = None THEN {gsElapsed}
                               ELSE gsElapsed..(gsElapsed + 1)
       ELSE gsRun' = gsRun + 1 /\ UNCHANGED <<gsPc, gsIdx, gsElapsed>>
    /\ UNCHANGED <<gsPops, gsGens, gsNRuns, gsTimeLimit, gsConfigs, gsSummary, gsOutcome>>

\* the DataFrame, the summary and the return; an empty DataFrame has no
\* 'config' column
GridSummary ==
    /\ gsPc = "summary"
    /\ gsPc' = "done"
    /\ IF gsResults = <<>>
       THEN gsOutcome' = "KeyError" /\ UNCHANGED gsSummary
       ELSE /\ gsOutcome' = "ok"
            /\ gsSummary' \in CreateSummaryStatistics(gsResults)
    /\ UNCHANGED <<gsPops, gsGens, gsNRuns, gsTimeLimit, gsConfigs, gsIdx, gsRun,
                   gsElapsed, gsFailures, gsResults, gsSelf>>

GridIdle ==
    /\ gsPc = "idle"
    /\ gsPops = <<>>
    /\ gsGens = <<>>
    /\ gsNRuns = 0
    /\ gsTimeLimit = None
    /\ gsConfigs = <<>>
    /\ gsIdx = 1
    /\ gsRun = 0
    /\ gsElapsed = 0
    /\ gsFailures = 0
    /\ gsResults = <<>>
    /\ gsSelf = <<>>
    /\ gsSummary = <<>>
    /\ gsOutcome = "none"

----------------------------------------------------------------------------
\* The adaptive tuning: HyperparameterTuningService.adaptive_tuning_by_num_assets

\* the Ativo rows of the database in the order the query returns them, and
\* those of tipo ACAO
AtivosNoBanco == <<1, 2, 3, 4, 5>>
AtivosAcao == {1, 2, 3, 4, 5}

\* the arguments of the calls considered
AssetRangeLists == {<<3>>, <<5>>, <<6>>, <<3, 5>>, <<5, 3>>, <<3, 6, 5>>}
NiveisRisco == {"neutro", "conservador", "moderado", "arrojado"}
TunePopulationSizes == <<20, 40>>
TuneGenerationCounts == <<5, 10>>

\* db.session.query(Ativo).limit(num_ativos).all()
QueryLimit(num_ativos) ==
    {AtivosNoBanco[k] : k \in {i \in 1..Len(AtivosNoBanco) : i <= num_ativos}}

\* Nsga2OtimizacaoService(app, ids_ativos_restringidos, nivel_risco, prazo_anos)
\* as _run_single_optimization(config, ids_ativos, nivel_risco, ...) builds it
RunService(ids_ativos, nivel_risco) ==
    [ids_ativos_restringidos |-> {}, nivel_risco |-> "moderado", prazo_anos |-> 10]

\* the assets _preparar_dados queries for a service: those of tipo ACAO that
\* are not restricted
AtivosParaOtimizar(service) == AtivosAcao \ service.ids_ativos_restringidos

\* the dict appended to optimal_configs for the first row of a summary
OptimalConfig(num_ativos, nivel_risco, best) ==
    [num_ativos |-> num_ativos, nivel_risco |-> nivel_risco,
     population_size |-> best.population_size, generations |-> best.generations,
     crossover_eta |-> DefaultCrossoverEta, mutation_eta |-> DefaultMutationEta]

TuneBegin(asset_ranges, nivel_risco) ==
    /\ tnPc = "idle"
    /\ tnAssetRanges' = asset_ranges
    /\ tnNivelRisco' = nivel_risco
    /\ tnI' = 1
    /\ tnIds' = {}
    /\ tnOptimal' = <<>>
    /\ tnOutcome' = "none"
    /\ tnPc' = "asset"
    /\ UNCHANGED tnLaunched

\* the head of "for num_ativos in asset_ranges" and the query of the assets
TuneQuery ==
    /\ tnPc = "asset"
    /\ IF tnI > Len(tnAssetRanges)
       THEN tnPc' = "finish" /\ UNCHANGED <<tnI, tnIds>>
       ELSE LET ativos == QueryLimit(tnAssetRanges[tnI])
            IN  IF Cardinality(ativos) < tnAssetRanges[tnI]
                THEN tnI' = tnI + 1 /\ UNCHANGED <<tnPc, tnIds>>
                ELSE tnIds' = ativos /\ tnPc' = "grid" /\ UNCHANGED tnI
    /\ UNCHANGED <<tnAssetRanges, tnNivelRisco, tnLaunched, tnOptimal, tnOutcome>>

\* the call grid_search(ids_ativos, nivel_risco, ...) of the iteration: each of
\* its runs builds its service; the call raises, or returns a summary whose
\* first row is one of the configurations
TuneGridSearch ==
    /\ tnPc = "grid"
    /\ tnLaunched' = tnLaunched \cup
          {[ids_ativos |-> tnIds, nivel_risco |-> tnNivelRisco,
            service |-> RunService(tnIds, tnNivelRisco)]}
    /\ \/ UNCHANGED tnOptimal
       \/ \E best \in DOMAIN Configs(TunePopulationSizes, TuneGenerationCounts) :
             tnOptimal' = Append(tnOptimal,
                 OptimalConfig(tnAssetRanges[tnI], tnNivelRisco,
                     Configs(TunePopulationSizes, TuneGenerationCounts)[best]))
    /\ tnI' = tnI + 1
    /\ tnPc' = "asset"
    /\ UNCHANGED <<tnAssetRanges, tnNivelRisco, tnIds, tnOutcome>>

\* df_optimal: returned empty, or handed to save_optimal_configs_to_db
TuneFinish ==
    /\ tnPc = "finish"
    /\ tnOutcome' = IF tnOptimal = <<>> THEN "empty" ELSE "saved"
    /\ tnPc' = "done"
    /\ UNCHANGED <<tnAssetRanges, tnNivelRisco, tnI, tnIds, tnLaunched, tnOptimal>>

TuneIdle ==
    /\ tnPc = "idle"
    /\ tnAssetRanges = <<>>
    /\ tnNivelRisco = "neutro"
    /\ tnI = 1
    /\ tnIds = {}
    /\ tnLaunched = {}
    /\ tnOptimal = <<>>
    /\ tnOutcome = "none"

----------------------------------------------------------------------------
\* One HyperparameterTuningService instance through an adaptive tuning: the
\* grid_search calls, the save, and the queries on self.results

MaxGridCalls == 2   \* grid_search calls of one adaptive tuning

\* population_sizes and generation_counts of the tuning
SessionPopulationSizes == <<20, 40>>
SessionGenerationCounts == <<5>>

\* the outcome of the run of each configuration (n_runs = 1): its
\* final_hypervolume, or 0 for a run that raised
SessionRunOutcomes ==
    [DOMAIN Configs(SessionPopulationSizes, SessionGenerationCounts) -> FinalHypervolumes \cup {0}]

\* the results list of a grid_search call whose runs ended as outs tells
RECURSIVE ResultsOf(_, _, _)
ResultsOf(configs, outs, k) ==
    IF k = 0 THEN <<>>
    ELSE IF outs[k] = 0 THEN ResultsOf(configs, outs, k - 1)
    ELSE Append(ResultsOf(configs, outs, k - 1), TuningResult(configs[k], 1, outs[k]))

\* TuningResult.to_dict
TuningResultToDict(r) ==
    [config |-> ConfigStr(r.config), run_number |-> r.run_number,
     final_hypervolume |-> r.final_hypervolume]

\* the keys of config_scores in insertion order: the positions in results at
\* which a str(config) appears first
FirstPositions(results) ==
    {i \in 1..Len(results) :
        \A j \in 1..(i - 1) : ConfigStr(results[j].config) # ConfigStr(results[i].config)}

\* get_best_configuration(): the first key, in insertion order, whose mean
\* hypervolume no earlier key reaches and no later key exceeds
GetBestConfiguration(results) ==
    IF results = <<>> THEN None
    ELSE LET same(i) == {j \in 1..Len(results) :
                            ConfigStr(results[j].config) = ConfigStr(results[i].config)}
             \* mean(i) > mean(j)
             greater(i, j) == SumHv(results, same(i)) * Cardinality(same(j))
                                > SumHv(results, same(j)) * Cardinality(same(i))
             best == CHOOSE i \in FirstPositions(results) :
                        /\ \A j \in FirstPositions(results) : j < i => greater(i, j)
                        /\ \A j \in FirstPositions(results) : j > i => ~greater(j, i)
         IN  Some(results[best].config)

\* a save whose failure empties self.results
SessionSaveClearing ==
    /\ ssPc = "tuning"
    /\ ssCalls >= 1
    /\ ssPc' = "done"
    /\ IF ssOptimal = <<>>
       THEN ssOutcome' = "empty" /\ UNCHANGED ssResults
       ELSE \/ ssOutcome' = "saved" /\ UNCHANGED ssResults
            \/ ssOutcome' = "IntegrityError" /\ ssResults' = <<>>
    /\ UNCHANGED <<ssCalls, ssSummary, ssOptimal, ssBest, ssAsked, ssExported>>

\* one iteration of adaptive_tuning_by_num_assets: grid_search appends the
\* result of every run that did not raise to self.results; without a result
\* the summary raises and the iteration is skipped
SessionGridSearch ==
    /\ ssPc = "tuning"
    /\ ssCalls < MaxGridCalls
    /\ ssCalls' = ssCalls + 1
    /\ \E outs \in SessionRunOutcomes :
          LET configs == Configs(SessionPopulationSizes, SessionGenerationCounts)
              results == ResultsOf(configs, outs, Len(configs))
          IN  /\ ssResults' = ssResults \o results
              /\ IF results = <<>>
                 THEN ssSummary' = <<>> /\ UNCHANGED ssOptimal
                 ELSE \E summary \in CreateSummaryStatistics(results) :
                         /\ ssSummary' = summary
                         /\ ssOptimal' = Append(ssOptimal,
                                [population_size |-> summary[1].population_size,
                                 generations |-> summary[1].generations])
    /\ ssAsked' = FALSE
    /\ ssBest' = None
    /\ UNCHANGED <<ssPc, ssOutcome, ssExported>>

\* the end of adaptive_tuning_by_num_assets: an empty df_optimal is returned;
\* else save_optimal_configs_to_db commits, or raises and the exception leaves
\* adaptive_tuning_by_num_assets
SessionSave ==
    /\ ssPc = "tuning"
    /\ ssCalls >= 1
    /\ ssPc' = "done"
    /\ IF ssOptimal = <<>>
       THEN ssOutcome' = "empty"
       ELSE ssOutcome' \in {"saved", "IntegrityError"}
    /\ UNCHANGED <<ssResults, ssCalls, ssSummary, ssOptimal, ssBest, ssAsked, ssExported>>

\* get_best_configuration()
SessionGetBest ==
    /\ ~ssAsked
    /\ ssCalls >= 1
    /\ ssAsked' = TRUE
    /\ ssBest' = GetBestConfiguration(ssResults)
    /\ UNCHANGED <<ssPc, ssResults, ssCalls, ssSummary, ssOptimal, ssOutcome, ssExported>>

\* export_results()
SessionExport ==
    /\ ssPc = "done"
    /\ ssExported = None
    /\ ssExported' = Some([i \in 1..Len(ssResults) |-> TuningResultToDict(ssResults[i])])
    /\ UNCHANGED <<ssPc, ssResults, ssCalls, ssSummary, ssOptimal, ssOutcome, ssBest, ssAsked>>

SessionIdle ==
    /\ ssPc = "tuning"
    /\ ssResults = <<>>
    /\ ssCalls = 0
    /\ ssSummary = <<>>
    /\ ssOptimal = <<>>
    /\ ssOutcome = "none"
    /\ ssBest = None
    /\ ssAsked = FALSE
    /\ ssExported = None

----------------------------------------------------------------------------
\* The convergence analysis: HyperparameterTuningService.convergence_analysis

\* the methods of Nsga2OtimizacaoService
ServiceMethods ==
    {"_preparar_dados", "_analisar_correlacao", "_escolher_melhor_carteira", "otimizar"}

\* the parameters of Nsga2OtimizacaoService.otimizar
OtimizarParameters ==
    {"population_size", "generations", "crossover_eta", "mutation_eta", "convergence_tracker"}

\* the arguments of the calls considered
CaArguments ==
    [ids_ativos : {<<1, 2, 3>>, <<1, 2, 3, 4, 5>>},
     nivel_risco : {"conservador", "moderado", "arrojado"},
     max_generations : {1, 2, 3},
     population_size : {2, 4},
     with_dates : BOOLEAN,
     n_runs : {1, 2, 3}]

\* convergence_analysis(ids_ativos, nivel_risco, max_generations,
\* population_size, data_inicio, data_fim, n_runs): the lookup of
\* service._buscar_dados_historicos comes first, then the n_runs calls
\* service.otimizar(ids_ativos=, nivel_risco=, population_size=, generations=,
\* convergence_tracker=), each after a new ConvergenceTracker
ConvergenceAnalysis(args) ==
    /\ caPc = "idle"
    /\ caPc' = "done"
    /\ caArgs' = Some(args)
    /\ IF "_buscar_dados_historicos" \notin ServiceMethods
       THEN /\ caOutcome' = "AttributeError"
            /\ caRuns' = 0
            /\ caTrackers' = 0
            /\ caAnalysis' = None
       ELSE IF ~({"ids_ativos", "nivel_risco", "population_size", "generations",
                  "convergence_tracker"} \subseteq OtimizarParameters)
       THEN /\ caOutcome' = "TypeError"
            /\ caRuns' = 1
            /\ caTrackers' = 1
            /\ caAnalysis' = None
       ELSE /\ caOutcome' = "ok"
            /\ caRuns' = args.n_runs
            /\ caTrackers' = args.n_runs
            /\ caAnalysis' = Some([n_runs |-> args.n_runs,
                                   raw_runs |-> [run \in 1..args.n_runs |->
                                                    [run |-> run,
                                                     generations |-> args.max_generations]]])

CaIdle ==
    /\ caPc = "idle"
    /\ caArgs = None
    /\ caRuns = 0
    /\ caTrackers = 0
    /\ caOutcome = "none"
    /\ caAnalysis = None

----------------------------------------------------------------------------
\* The quality metrics and the convergence tracker: quality_metrics.py

\* the bound on the number of updates of a tracker
MaxHistory == 3

\* objective rows <<-return, variance, cvar>> of portfolios, in some unit
PontosObjetivo == {<<-3, 2, 1>>, <<-2, 1, 3>>, <<-1, 1, 1>>, <<-3, 3, 3>>}

\* the fronts and populations considered: up to two rows
Fronts ==
    {<<>>} \cup {<<p>> : p \in PontosObjetivo}
           \cup {<<p, q>> : p \in PontosObjetivo, q \in PontosObjetivo}

\* the values the Monte Carlo estimate of calculate_hypervolume may take, in
\* some unit
Hypervolumes == {1, 2}

\* the objective rows of the populations considered
Populations == {<<>>, <<<<-3, 2, 1>>, <<-1, 1, 1>>>>}

\* float('inf'), as the fraction 1/0
Inf == <<1, 0>>

ColumnMin(front, i) ==
    CHOOSE v \in {front[k][i] : k \in 1..Len(front)} :
        \A k \in 1..Len(front) : v <= front[k][i]

ColumnMax(front, i) ==
    CHOOSE v \in {front[k][i] : k \in 1..Len(front)} :
        \A k \in 1..Len(front) : v >= front[k][i]

\* _normalize_front for a front of two rows: each objective becomes 0 for its
\* smallest value and 1 for its largest (0 for both when they are equal)
NormalizeFront(front) ==
    [k \in 1..Len(front) |->
        [i \in 1..3 |->
            IF ColumnMax(front, i) - ColumnMin(front, i) = 0 THEN 0
            ELSE IF front[k][i] = ColumnMin(front, i) THEN 0 ELSE 1]]

\* np.argmin: the first index of the smallest value
ArgMin(front, i) ==
    CHOOSE k \in 1..Len(front) :
        /\ front[k][i] = ColumnMin(front, i)
        /\ \A l \in 1..(k - 1) : front[l][i] # ColumnMin(front, i)

\* np.argsort(normalized_front[:, 0]): equal values may come in either order
ArgSorts(front) ==
    {o \in {<<1, 2>>, <<2, 1>>} : front[o[1]][1] <= front[o[2]][1]}

\* np.linalg.norm(p - q) within a normalized front of two rows, in units of
\* the distance between the two rows
Dist(p, q) == IF p = q THEN 0 ELSE 1

\* a spread of 0
SpreadZero == {<<0, 1>>}

\* an update that keeps only the latest record
UpdateOverwriting(history, generation, metrics, population_fitness) ==
    <<[generation |-> generation,
       hypervolume |-> metrics.hypervolume,
       spread |-> metrics.spread,
       spacing |-> metrics.spacing,
       pareto_size |-> metrics.pareto_size,
       best_fitness |-> 0]>>

\* "if len(pareto_front) < 2: return float('inf')"
SpreadOfLoneFront == {Inf}

\* calculate_spread: the values it may return, inf or a fraction
CalculateSpread(front) ==
    IF Len(front) < 2 THEN SpreadOfLoneFront
    ELSE LET nf == NormalizeFront(front)
             first == nf[ArgMin(nf, 1)]
             last == nf[ArgMin(nf, 3)]
         IN  {LET d == Dist(nf[o[2]], nf[o[1]])
                  d_first == Dist(nf[o[1]], first)
                  d_last == Dist(nf[o[2]], last)
                  numerator == d_first + d_last       \* |d - d_mean| = 0
                  denominator == d_first + d_last + d
              IN  IF denominator > 0 THEN <<numerator, denominator>> ELSE <<0, 1>> :
                 o \in ArgSorts(nf)}

\* calculate_spacing: with two rows both nearest-neighbour distances are the
\* same, so their standard deviation is 0
CalculateSpacing(front) == 0

\* calculate_all_metrics: the dicts it may return when the hypervolume
\* estimate is hv
CalculateAllMetrics(front, hv) ==
    {[hypervolume |-> IF Len(front) = 0 THEN 0 ELSE hv,
      spread |-> sp,
      spacing |-> CalculateSpacing(front),
      pareto_size |-> Len(front)] : sp \in CalculateSpread(front)}

\* np.min(population_fitness[:, 0]) if len(population_fitness) > 0 else 0
BestFitness(population_fitness) ==
    IF Len(population_fitness) > 0 THEN ColumnMin(population_fitness, 1) ELSE 0

\* ConvergenceTracker.update: the history after the update, given the metrics
Update(history, generation, metrics, population_fitness) ==
    Append(history,
        [generation |-> generation,
         hypervolume |-> metrics.hypervolume,
         spread |-> metrics.spread,
         spacing |-> metrics.spacing,
         pareto_size |-> metrics.pareto_size,
         best_fitness |-> BestFitness(population_fitness)])

SeqMax(hv) == CHOOSE v \in {hv[k] : k \in 1..Len(hv)} : \A k \in 1..Len(hv) : v >= hv[k]

SeqMin(hv) == CHOOSE v \in {hv[k] : k \in 1..Len(hv)} : \A k \in 1..Len(hv) : v <= hv[k]

\* (max(hv) - min(hv)) / (min(hv) + 1e-10) < threshold for whole-number
\* hypervolumes and a threshold num/den between 1e-10 and 1e10
ImprovementBelow(hv, threshold) ==
    IF SeqMin(hv) = 0
    THEN SeqMax(hv) = 0
    ELSE (SeqMax(hv) - SeqMin(hv)) * threshold[2] < threshold[1] * SeqMin(hv)

\* has_converged(window, threshold)
HasConverged(history, window, threshold) ==
    LET hv == [k \in 1..Len(history) |-> history[k].hypervolume]
    IN  IF Len(hv) < window + 1 THEN FALSE
        \* hypervolume[-window:] is the last window entries
        ELSE ImprovementBelow(SubSeq(hv, Len(hv) - window + 1, Len(hv)), threshold)

\* the values of i that "for i in range(window, len(hypervolume))" visits
\* (0-based)
WindowEnds(window, n) == window..(n - 1)

\* get_convergence_generation(window, threshold)
GetConvergenceGeneration(history, window, threshold) ==
    LET hv == [k \in 1..Len(history) |-> history[k].hypervolume]
        \* hypervolume[i-window:i] is hv[i-window+1 .. i] counting from 1
        hits == {i \in WindowEnds(window, Len(history)) :
                    ImprovementBelow(SubSeq(hv, i - window + 1, i), threshold)}
    IN  IF hits = {} THEN None
        ELSE LET i == CHOOSE h \in hits : \A g \in hits : h <= g
             IN  Some(history[i + 1].generation)    \* generation[i], 0-based

\* the arguments of the queries considered
Windows == {1, 2, 3}
Thresholds == {<<1, 100>>, <<3, 2>>}

\* one call of update(generation, pareto_front, population_fitness), with the
\* generations numbered from 1 as the callback of a run numbers them
TrackerUpdate ==
    /\ Len(trHistory) < MaxHistory
    /\ \E front \in Fronts, pop \in Populations, hv \in Hypervolumes :
          /\ \E metrics \in CalculateAllMetrics(front, hv) :
                /\ trMetrics' = Some(metrics)
                /\ trHistory' = Update(trHistory, Len(trHistory) + 1, metrics, pop)
    /\ trAsked' = FALSE
    /\ trConverged' = None
    /\ UNCHANGED <<trWindow, trThreshold, trResult>>

TrackerGetConvergenceGeneration(window, threshold) ==
    /\ trWindow' = window
    /\ trThreshold' = threshold
    /\ trResult' = GetConvergenceGeneration(trHistory, window, threshold)
    /\ trAsked' = TRUE
    /\ trConverged' = None
    /\ UNCHANGED <<trHistory, trMetrics>>

\* has_converged asked with the window and threshold of the query before it
TrackerHasConverged ==
    /\ trAsked
    /\ trConverged = None
    /\ trConverged' = Some(HasConverged(trHistory, trWindow, trThreshold))
    /\ UNCHANGED <<trHistory, trMetrics, trWindow, trThreshold, trResult, trAsked>>

TrackerIdle ==
    /\ trHistory = <<>>
    /\ trMetrics = None
    /\ trWindow = 1
    /\ trThreshold = <<1, 100>>
    /\ trResult = None
    /\ trAsked = FALSE
    /\ trConverged = None

----------------------------------------------------------------------------
\* The hypervolume estimate: QualityMetrics.calculate_hypervolume without a
\* reference point, for fronts of three objectives (quality_metrics.py)

HvSamples == 2   \* n_samples of the Monte Carlo estimate

\* objective rows with first objectives of either sign
HvPontos == {<<-3, 2, 1>>, <<-1, 1, 1>>, <<0, 1, 1>>, <<2, 1, 3>>}

HvFronts ==
    {<<>>} \cup {<<p>> : p \in HvPontos} \cup {<<p, q>> : p \in HvPontos, q \in HvPontos}

\* the uniform numbers in [0, 1) behind np.random.uniform, in halves: 0, 1/2
HvUniforms == (0..1) \X (0..1) \X (0..1)

\* np.max(pareto_front, axis=0) * 1.1, in tenths
ReferencePoint(front) == [i \in 1..3 |-> 11 * ColumnMax(front, i)]

\* np.min(pareto_front, axis=0), in tenths
MinBounds(front) == [i \in 1..3 |-> 10 * ColumnMin(front, i)]

\* np.random.uniform(low=min_bounds, high=ref_point): low + (high - low) * U
\* in each objective, in twentieths
RandomPoints(min_bounds, ref_point, U) ==
    [k \in 1..Len(U) |->
        [i \in 1..3 |-> 2 * min_bounds[i] + (ref_point[i] - min_bounds[i]) * U[k][i]]]

\* _is_dominated_by_front, the point in twentieths
IsDominatedByFront(point, front) ==
    \E k \in 1..Len(front) :
        /\ \A i \in 1..3 : 20 * front[k][i] <= point[i]
        /\ \E i \in 1..3 : 20 * front[k][i] < point[i]

\* _hypervolume_monte_carlo: (dominated_count / n_samples) * box_volume, times
\* 1000 * n_samples
HypervolumeMonteCarlo(front, ref_point, U) ==
    LET min_bounds == MinBounds(front)
        box_volume == (ref_point[1] - min_bounds[1]) * (ref_point[2] - min_bounds[2])
                        * (ref_point[3] - min_bounds[3])
        points == RandomPoints(min_bounds, ref_point, U)
        dominated_count == Cardinality({k \in 1..Len(U) : IsDominatedByFront(points[k], front)})
    IN  dominated_count * box_volume

\* calculate_hypervolume(pareto_front) with self.reference_point None
CalculateHypervolume ==
    /\ ~hvAsked
    /\ hvAsked' = TRUE
    /\ \E front \in HvFronts, U \in [1..HvSamples -> HvUniforms] :
          /\ hvFront' = front
          /\ IF Len(front) = 0
             THEN /\ hvResult' = 0
                  /\ UNCHANGED <<hvRefPoint, hvSides, hvPoints>>
             ELSE /\ hvRefPoint' = ReferencePoint(front)
                  /\ hvSides' = [i \in 1..3 |-> ReferencePoint(front)[i] - MinBounds(front)[i]]
                  /\ hvPoints' = RandomPoints(MinBounds(front), ReferencePoint(front), U)
                  /\ hvResult' = HypervolumeMonteCarlo(front, ReferencePoint(front), U)

HvIdle ==
    /\ hvAsked = FALSE
    /\ hvFront = <<>>
    /\ hvRefPoint = <<>>
    /\ hvSides = <<>>
    /\ hvPoints = <<>>
    /\ hvResult = 0

----------------------------------------------------------------------------
\* The front selection policies: _escolher_melhor_carteira of agmo_service.py
\* and of backtest_service.py

\* the fronts considered: one to three rows
SelectionFronts ==
    {<<p>> : p \in PontosObjetivo}
        \cup {<<p, q>> : p \in PontosObjetivo, q \in PontosObjetivo}
        \cup {<<p, q, r>> : p \in PontosObjetivo, q \in PontosObjetivo, r \in PontosObjetivo}

\* objetivos[:, 0] = -objetivos[:, 0]
InverteRetorno(objetivos) ==
    [k \in 1..Len(objetivos) |-> <<-objetivos[k][1], objetivos[k][2], objetivos[k][3]>>]

\* objetivos_norm[k, i] as the fraction NormNum / NormDen: (col - min) /
\* (max - min), or 0.5 when max - min is not above 1e-10
NormNum(objetivos, i, k) ==
    IF ColumnMax(objetivos, i) - ColumnMin(objetivos, i) > 0
    THEN objetivos[k][i] - ColumnMin(objetivos, i)
    ELSE 1

NormDen(objetivos, i) ==
    IF ColumnMax(objetivos, i) - ColumnMin(objetivos, i) > 0
    THEN ColumnMax(objetivos, i) - ColumnMin(objetivos, i)
    ELSE 2

\* pesos_perfil of the optimizer, in tenths
PesosPerfil ==
    [conservador |-> <<2, 5, 3>>, moderado |-> <<4, 3, 3>>, arrojado |-> <<6, 2, 2>>]

\* pesos_perfil of the backtest, in tenths
PesosPerfilBacktest ==
    [conservador |-> <<2, 4, 4>>, moderado |-> <<4, 3, 3>>, arrojado |-> <<6, 2, 2>>]

\* scores[k] of the optimizer, times 10 * NormDen(1) * NormDen(2) * NormDen(3)
Score(objetivos, pesos, k) ==
    NormNum(objetivos, 1, k) * pesos[1] * NormDen(objetivos, 2) * NormDen(objetivos, 3)
        - NormNum(objetivos, 2, k) * pesos[2] * NormDen(objetivos, 1) * NormDen(objetivos, 3)

\* scores[k] of the backtest, times the same factor
ScoreBacktest(objetivos, pesos, k) ==
    NormNum(objetivos, 1, k) * pesos[1] * NormDen(objetivos, 2) * NormDen(objetivos, 3)
        - NormNum(objetivos, 2, k) * pesos[2] * NormDen(objetivos, 1) * NormDen(objetivos, 3)
        - NormNum(objetivos, 3, k) * pesos[3] * NormDen(objetivos, 1) * NormDen(objetivos, 2)

\* np.argmax: the first index of the largest score
ArgMax(scores) ==
    CHOOSE k \in 1..Len(scores) :
        /\ \A l \in 1..Len(scores) : scores[k] >= scores[l]
        /\ \A l \in 1..(k - 1) : scores[l] < scores[k]

\* what a call does: KeyError, or the index of the row whose solution it returns
Raised(error) == [error |-> error, idx |-> 0]

Returned(idx) == [error |-> "none", idx |-> idx]

\* Nsga2OtimizacaoService._escolher_melhor_carteira(objetivos, solucoes)
EscolherMelhorCarteira(objetivos, nivel_risco) ==
    IF nivel_risco \notin DOMAIN PesosPerfil THEN Raised("KeyError")
    ELSE LET obj == InverteRetorno(objetivos)
         IN  Returned(ArgMax([k \in 1..Len(obj) |->
                                 Score(obj, PesosPerfil[nivel_risco], k)]))

\* BacktestService._escolher_melhor_carteira(objetivos, solucoes, nivel_risco)
EscolherMelhorCarteiraBacktest(objetivos, nivel_risco) ==
    IF nivel_risco \notin DOMAIN PesosPerfilBacktest THEN Raised("KeyError")
    ELSE LET obj == InverteRetorno(objetivos)
         IN  Returned(ArgMax([k \in 1..Len(obj) |->
                                 ScoreBacktest(obj, PesosPerfilBacktest[nivel_risco], k)]))

\* both policies applied to a front under a profile
Escolher(objetivos, nivel_risco) ==
    /\ slObjetivos' = objetivos
    /\ slNivelRisco' = nivel_risco
    /\ slOtimizador' = EscolherMelhorCarteira(objetivos, nivel_risco)
    /\ slBacktest' = EscolherMelhorCarteiraBacktest(objetivos, nivel_risco)

SelectionIdle ==
    /\ slObjetivos = <<>>
    /\ slNivelRisco = "moderado"
    /\ slOtimizador = Returned(0)
    /\ slBacktest = Returned(0)

----------------------------------------------------------------------------
\* The tail risk: PersonalizedPortfolioProblem._calcular_cvar

\* the loss vectors considered, all finite: of these lengths, rising, constant,
\* falling or periodic
LossLengths == {1, 2, 3, 5, 19, 20, 21, 25, 40}

LossVectors ==
    {[k \in 1..n |-> k] : n \in LossLengths}
        \cup {[k \in 1..n |-> 2] : n \in LossLengths}
        \cup {[k \in 1..n |-> n - k] : n \in LossLengths}
        \cup {[k \in 1..n |-> ((7 * k) % 5) - 2] : n \in LossLengths}

\* the values of alpha considered: 0.05 (the default), 0.1, 0.2, 0.5
Alphas == {<<1, 20>>, <<1, 10>>, <<1, 5>>, <<1, 2>>}

\* "if len(perdas_validas) < 20"
MinimoDados == 20

RECURSIVE SeqSum(_)
SeqSum(xs) == IF xs = <<>> THEN 0 ELSE Head(xs) + SeqSum(Tail(xs))

RECURSIVE Insert(_, _)
Insert(sorted, v) ==
    IF sorted = <<>> THEN <<v>>
    ELSE IF v <= Head(sorted) THEN <<v>> \o sorted
    ELSE <<Head(sorted)>> \o Insert(Tail(sorted), v)

\* np.sort: ascending
RECURSIVE Sort(_)
Sort(xs) == IF xs = <<>> THEN <<>> ELSE Insert(Sort(Tail(xs)), Head(xs))

\* a returned number: the fraction num/den, or its square root when root
Exact(num, den) == [root |-> FALSE, num |-> num, den |-> den]

Root(num, den) == [root |-> TRUE, num |-> num, den |-> den]

\* np.std(xs): the square root of the mean squared deviation from the mean
Std(xs) ==
    LET n == Len(xs)
    IN  Root(n * SeqSum([k \in 1..n |-> xs[k] * xs[k]]) - SeqSum(xs) * SeqSum(xs), n * n)

\* k = max(1, int(alpha * len(perdas_ordenadas)))
TailCount(alpha, n) ==
    IF (alpha[1] * n) \div alpha[2] > 1 THEN (alpha[1] * n) \div alpha[2] ELSE 1

\* the branch taken for fewer than 20 losses
Fallback(perdas_validas) == Std(perdas_validas)

\* perdas_ordenadas[-k:].mean()
TailMean(perdas_validas, alpha) ==
    LET perdas_ordenadas == Sort(perdas_validas)
        n == Len(perdas_ordenadas)
        k == TailCount(alpha, n)
    IN  Exact(SeqSum(SubSeq(perdas_ordenadas, n - k + 1, n)), k)

\* _calcular_cvar, from the finite losses on
CalcularCvar(perdas_validas, alpha) ==
    IF Len(perdas_validas) < MinimoDados
    THEN Fallback(perdas_validas)
    ELSE TailMean(perdas_validas, alpha)

Cvar(perdas_validas, alpha) ==
    /\ cvPerdas' = perdas_validas
    /\ cvAlpha' = alpha
    /\ cvResult' = CalcularCvar(perdas_validas, alpha)

CvarIdle ==
    /\ cvPerdas = <<>>
    /\ cvAlpha = <<1, 20>>
    /\ cvResult = Exact(0, 1)

----------------------------------------------------------------------------
\* The optimization as a whole: Nsga2OtimizacaoService.otimizar with
\* _preparar_dados, the generations of minimize and ConvergenceCallback.notify

\* the services and calls considered
RestringidosChoices == {{}, {3}, {3, 4, 5}}
PrazoAnosChoices == {1, 2}
OtGenerations == {1, 2, 3}
OtPopulationSize == 2
OtPopulations ==
    {<<<<-3, 2, 1>>, <<-1, 1, 1>>>>, <<<<-2, 1, 3>>, <<-3, 3, 3>>>>,
     <<<<-3, 2, 1>>, <<-3, 3, 3>>>>}

\* the price histories considered: every asset with the same 36 months; three
\* assets with 36 months that overlap in 24, one with 12 months and one with
\* none; one asset whose 36 months come after those of the others; no rows at
\* all
HistoricoBancos ==
    {[a \in AtivosAcao |-> 1..36],
     [a \in AtivosAcao |-> IF a = 3 THEN 37..72 ELSE 1..36],
     [a \in AtivosAcao |->
         IF a \in {1, 2} THEN 1..36 ELSE IF a = 3 THEN 13..48
         ELSE IF a = 4 THEN 1..12 ELSE {}],
     [a \in AtivosAcao |-> {}]}

\* "if len(...) < 3"
MinimoAtivosMenor == 3 - 1

MinimoAtivos == 3

MinimoAbsolutoMeses == 24

\* historico_minimo_meses = max(int(prazo_anos * 12 * 1.5), 24)
HistoricoMinimoMeses(prazo_anos) ==
    IF prazo_anos * 18 > MinimoAbsolutoMeses THEN prazo_anos * 18 ELSE MinimoAbsolutoMeses

\* the columns of the pivot that have at least the minimum of months
AtivosValidos(ativos, banco, prazo_anos) ==
    {a \in ativos : /\ banco[a] # {}
                    /\ Cardinality(banco[a]) >= HistoricoMinimoMeses(prazo_anos)}

\* the index of the pivot of the valid assets after dropna: the months for
\* which every one of them has a row
MesesAlinhados(validos, banco) ==
    {mes \in UNION {banco[a] : a \in validos} : \A a \in validos : mes \in banco[a]}

\* _preparar_dados: the error it raises, or "none"
PrepararDados(restringidos, prazo_anos, banco) ==
    LET ativos == AtivosAcao \ restringidos
        validos == AtivosValidos(ativos, banco, prazo_anos)
    IN  IF Cardinality(ativos) < MinimoAtivos THEN "ValueError"
        ELSE IF \A a \in ativos : banco[a] = {} THEN "ValueError"
        ELSE IF Cardinality(validos) < MinimoAtivos THEN "ValueError"
        ELSE IF Cardinality(MesesAlinhados(validos, banco)) < HistoricoMinimoMeses(prazo_anos)
             THEN "ValueError"
        ELSE "none"

\* row p dominates row q: no worse in every objective and better in one
Dominates(p, q) ==
    /\ \A i \in 1..3 : p[i] <= q[i]
    /\ \E i \in 1..3 : p[i] < q[i]

RECURSIVE SelectRows(_, _)
SelectRows(rows, all) ==
    IF rows = <<>> THEN <<>>
    ELSE IF \E k \in 1..Len(all) : Dominates(all[k], Head(rows))
         THEN SelectRows(Tail(rows), all)
         ELSE <<Head(rows)>> \o SelectRows(Tail(rows), all)

\* algorithm.opt.get("F"): the rows of the population that no row dominates
ParetoFront(population) == SelectRows(population, population)

\* otimizar(population_size, generations, convergence_tracker) of a service:
\* _preparar_dados, then the problem, the operators and the algorithm
OtOtimizar(restringidos, nivel_risco, prazo_anos, banco, generations, tracker) ==
    /\ otPc = "idle"
    /\ otRestringidos' = restringidos
    /\ otNivelRisco' = nivel_risco
    /\ otPrazoAnos' = prazo_anos
    /\ otBanco' = banco
    /\ otNGen' = generations
    /\ otTracker' = tracker
    /\ otGen' = 0
    /\ otPopulation' = <<>>
    /\ otEvaluations' = 0
    /\ otComposicao' = {}
    /\ IF PrepararDados(restringidos, prazo_anos, banco) # "none"
       THEN /\ otOutcome' = PrepararDados(restringidos, prazo_anos, banco)
            /\ otAtivos' = AtivosAcao \ restringidos
            /\ otProblema' = None
            /\ otPc' = "done"
       ELSE /\ otOutcome' = "none"
            /\ otAtivos' = AtivosValidos(AtivosAcao \ restringidos, banco, prazo_anos)
            /\ otProblema' = Some([n_var |-> Cardinality(AtivosValidos(AtivosAcao \ restringidos,
                                                                       banco, prazo_anos)),
                                   nivel_risco |-> nivel_risco])
            /\ otPc' = "evolve"

\* one generation of minimize: the first samples and evaluates the population,
\* a later one evaluates the offspring and keeps the survivors
OtGeneration ==
    /\ otPc = "evolve"
    /\ otGen < otNGen
    /\ otGen' = otGen + 1
    /\ otPopulation' \in OtPopulations
    /\ otEvaluations' = otEvaluations + OtPopulationSize
    /\ otPc' = "notify"
    /\ UNCHANGED <<otRestringidos, otNivelRisco, otPrazoAnos, otBanco, otAtivos, otProblema,
                   otNGen, otTracker, otOutcome, otComposicao>>

\* the callback at the end of the generation: ConvergenceCallback.notify when
\* a tracker was given, nothing otherwise
OtNotify ==
    /\ otPc = "notify"
    /\ IF otTracker = None
       THEN UNCHANGED otTracker
       ELSE \E hv \in Hypervolumes :
              \E metrics \in CalculateAllMetrics(ParetoFront(otPopulation), hv) :
                 otTracker' = Some(Update(otTracker[1], otGen, metrics, otPopulation))
    /\ otPc' = "evolve"
    /\ UNCHANGED <<otRestringidos, otNivelRisco, otPrazoAnos, otBanco, otAtivos, otProblema,
                   otNGen, otGen, otPopulation, otEvaluations, otOutcome, otComposicao>>

\* after the last generation: resultado.X is None when no member is feasible,
\* else the selection of the portfolio and the composition
OtResult ==
    /\ otPc = "evolve"
    /\ otGen >= otNGen
    /\ \/ /\ otOutcome' = "ValueError"
          /\ UNCHANGED otComposicao
       \/ LET escolha == EscolherMelhorCarteira(ParetoFront(otPopulation), otNivelRisco)
          IN  IF escolha.error # "none"
              THEN otOutcome' = escolha.error /\ UNCHANGED otComposicao
              ELSE otOutcome' = "ok" /\ otComposicao' = otAtivos
    /\ otPc' = "done"
    /\ UNCHANGED <<otRestringidos, otNivelRisco, otPrazoAnos, otBanco, otAtivos, otProblema,
                   otNGen, otGen, otPopulation, otEvaluations, otTracker>>

OtIdle ==
    /\ otPc = "idle"
    /\ otRestringidos = {}
    /\ otNivelRisco = "moderado"
    /\ otPrazoAnos = 1
    /\ otBanco = [a \in AtivosAcao |-> {}]
    /\ otAtivos = {}
    /\ otProblema = None
    /\ otNGen = 0
    /\ otGen = 0
    /\ otPopulation = <<>>
    /\ otEvaluations = 0
    /\ otTracker = None
    /\ otOutcome = "none"
    /\ otComposicao = {}

----------------------------------------------------------------------------
----------------------------------------------------------------------------
\* The optimizer: the simplex operators (custom_crossover.py), the problem's
\* bounds and constraint, and otimizar's composition (agmo_service.py).
\*
\* A weight vector is [num, den]: the weights are num[i] / den, exactly.

MaxDen == 50   \* largest denominator of a parent that is recombined

PesoMinPct == 1       \* peso_min = 0.01
PesoMaxPct == 30      \* peso_max = 0.30
XlPct == 1            \* the xl the problem is built with: 0.01
XuPct == 100          \* the xu the problem is built with: 1
DropPerMille == 1     \* "if peso > 0.001"

\* np.random.dirichlet draws, in units of their sum:
\* (.25,.25,.25,.25) (.3,.3,.2,.2) (.7,.1,.1,.1) (.005,.295,.3,.4)
DirichletDraws == {<<1, 1, 1, 1>>, <<3, 3, 2, 2>>, <<7, 1, 1, 1>>, <<1, 59, 60, 80>>}
PopulationSizeChoices == {2}
NGenChoices == {1, 2, 3}
\* beta of the crossover and delta_q of the mutation, as <<numerator, denominator>>
Betas == {<<1, 2>>, <<3, 2>>}
Deltas == {<<-1, 2>>, <<1, 2>>}

Min(a, b) == IF a < b THEN a ELSE b

Max(a, b) == IF a > b THEN a ELSE b

RECURSIVE Gcd(_, _)
Gcd(a, b) == IF b = 0 THEN a ELSE Gcd(b, a % b)

RECURSIVE SumTo(_, _)
SumTo(f, n) == IF n = 0 THEN 0 ELSE f[n] + SumTo(f, n - 1)

Sum(f) == SumTo(f, Len(f))

RECURSIVE GcdTo(_, _)
GcdTo(f, n) == IF n = 0 THEN 0 ELSE Gcd(f[n], GcdTo(f, n - 1))

\* the vector num / den in lowest terms (num >= 0)
Vec(num, den) ==
    LET g == Gcd(den, GcdTo(num, Len(num)))
    IN  [num |-> [i \in 1..Len(num) |-> num[i] \div g], den |-> den \div g]

\* x / x.sum()
Normalize(x) == Vec(x.num, Sum(x.num))

\* np.clip(x, lo, hi) with the bounds in percent
Clip(x, lo, hi) ==
    Vec([i \in 1..Len(x.num) |-> Min(Max(100 * x.num[i], lo * x.den), hi * x.den)],
        100 * x.den)

\* np.maximum(x, 0) on the numerators
Maximum0(num) == [i \in 1..Len(num) |-> Max(num[i], 0)]

\* SimplexSampling._do for one Dirichlet draw
SimplexSampling(draw) == Normalize(Clip(Vec(draw, Sum(draw)), XlPct, XuPct))

\* 0.5 * ((1 + beta) * p1 + (1 - beta) * p2) for p1, p2 that sum to 1: the
\* numerators may be negative, the fraction is not reduced
CrossoverRaw(p1, p2, beta) ==
    LET bn == beta[1]
        bd == beta[2]
    IN  [num |-> [i \in 1..Len(p1.num) |->
                    (bd + bn) * p1.num[i] * p2.den + (bd - bn) * p2.num[i] * p1.den],
         den |-> 2 * bd * p1.den * p2.den]

\* SimplexCrossover._do: the child 0.5 * ((1 + beta) * p1 + (1 - beta) * p2)
SimplexCrossover(x1, x2, beta) ==
    LET raw == CrossoverRaw(Normalize(x1), Normalize(x2), beta)
        c == Normalize([num |-> Maximum0(raw.num), den |-> raw.den])
    IN  Normalize(Clip(c, XlPct, XuPct))

\* a transfer of max(w[i], w[j]) * 0.2 * delta_q
MutationRawOfLarger(p, i, j, delta) ==
    LET magnitude == Max(p.num[i], p.num[j]) * delta[1]
    IN  [num |-> [k \in 1..Len(p.num) |->
                    5 * delta[2] * p.num[k]
                      + (IF k = i THEN -magnitude ELSE IF k = j THEN magnitude ELSE 0)],
         den |-> 5 * delta[2] * p.den]

\* the individual p, which sums to 1, after min(w[i], w[j]) * 0.2 * delta_q has
\* moved from gene i to gene j; the fraction is not reduced
MutationRaw(p, i, j, delta) ==
    LET magnitude == Min(p.num[i], p.num[j]) * delta[1]
    IN  [num |-> [k \in 1..Len(p.num) |->
                    5 * delta[2] * p.num[k]
                      + (IF k = i THEN -magnitude ELSE IF k = j THEN magnitude ELSE 0)],
         den |-> 5 * delta[2] * p.den]

\* SimplexMutation._do for one individual
SimplexMutation(x, i, j, delta) ==
    LET raw == MutationRaw(Normalize(x), i, j, delta)
        m == Normalize([num |-> Maximum0(raw.num), den |-> raw.den])
    IN  Normalize(Clip(m, XlPct, XuPct))

\* every genotype counts as feasible
AlwaysFeasible(x) == TRUE

\* _evaluate's constraint G = max(pesos) - peso_max <= 0
Feasible(x) == \A i \in 1..Len(x.num) : 100 * x.num[i] <= PesoMaxPct * x.den

\* otimizar's composition: the weights above 0.001, divided by their sum
Composicao(x) ==
    LET kept == {i \in 1..Len(x.num) : 1000 * x.num[i] > DropPerMille * x.den}
        soma == SumTo([i \in 1..Len(x.num) |-> IF i \in kept THEN x.num[i] ELSE 0],
                      Len(x.num))
    IN  {[ativo |-> i, peso_num |-> x.num[i], peso_den |-> soma] : i \in kept}

\* parents whose recombination stays within 32-bit integers
Small(x) == x.den <= MaxDen

Mutable(x) == x.den <= 624 * MaxDen * MaxDen

\* otimizar: the initial population is sampled (generation 1)
GaOtimizar(ds, g) ==
    /\ gaPc = "idle"
    /\ Cardinality(ds) \in PopulationSizeChoices
    /\ gaPop' = {SimplexSampling(d) : d \in ds}
    /\ gaNGen' = g
    /\ gaGen' = 1
    /\ gaKids' = <<>>
    /\ gaOff' = {}
    /\ gaPc' = "evolve"
    /\ UNCHANGED <<gaBest, gaComposicao, gaOutcome>>

\* the mating of a generation: two parents are selected and recombined, or
\* copied when the crossover is not applied
GaMate ==
    /\ gaPc = "evolve"
    /\ gaGen < gaNGen
    /\ \E p1, p2 \in gaPop :
          \/ /\ Small(p1) /\ Small(p2)
             /\ \E beta \in Betas :
                   gaKids' = <<SimplexCrossover(p1, p2, beta), SimplexCrossover(p2, p1, beta)>>
          \/ /\ Mutable(p1) /\ Mutable(p2)
             /\ gaKids' = <<p1, p2>>
    /\ gaOff' = {}
    /\ gaPc' = "mutate"
    /\ UNCHANGED <<gaNGen, gaGen, gaPop, gaBest, gaComposicao, gaOutcome>>

\* the mutation of one offspring
GaMutate ==
    /\ gaPc = "mutate"
    /\ gaKids # <<>>
    /\ \E i, j \in 1..Len(Head(gaKids).num), delta \in Deltas :
          /\ i # j
          /\ gaOff' = gaOff \cup {SimplexMutation(Head(gaKids), i, j, delta)}
    /\ gaKids' = Tail(gaKids)
    /\ gaPc' = IF Tail(gaKids) = <<>> THEN "survive" ELSE "mutate"
    /\ UNCHANGED <<gaNGen, gaGen, gaPop, gaBest, gaComposicao, gaOutcome>>

\* the survival: pop_size of parents and offspring, feasible ones first; which
\* of them depends on the objective values
GaSurvive ==
    /\ gaPc = "survive"
    /\ LET merged == gaPop \cup gaOff
       IN  \E surv \in SUBSET merged :
              /\ Cardinality(surv) = Cardinality(gaPop)
              /\ (\E x \in surv : ~Feasible(x)) =>
                    \A y \in merged : Feasible(y) => y \in surv
              /\ gaPop' = surv
    /\ gaGen' = gaGen + 1
    /\ gaOff' = {}
    /\ gaPc' = "evolve"
    /\ UNCHANGED <<gaNGen, gaKids, gaBest, gaComposicao, gaOutcome>>

\* the result: resultado.X is None without a feasible individual; else one
\* genotype of the front is chosen and the composition is built
GaFinish ==
    /\ gaPc = "evolve"
    /\ gaGen = gaNGen
    /\ gaPc' = "done"
    /\ LET front == {x \in gaPop : Feasible(x)}
       IN  IF front = {}
           THEN gaOutcome' = "ValueError" /\ UNCHANGED <<gaBest, gaComposicao>>
           ELSE \E x \in front :
                   /\ gaBest' = <<x>>
                   /\ gaComposicao' = Composicao(x)
                   /\ gaOutcome' = "ok"
    /\ UNCHANGED <<gaNGen, gaGen, gaPop, gaKids, gaOff>>

GaIdle ==
    /\ gaPc = "idle"
    /\ gaNGen = 0
    /\ gaGen = 0
    /\ gaPop = {}
    /\ gaKids = <<>>
    /\ gaOff = {}
    /\ gaBest = <<>>
    /\ gaComposicao = {}
    /\ gaOutcome = "none"


----------------------------------------------------------------------------
\* One call of an operator with the random numbers it draws
\* (custom_crossover.py), eta as otimizar's defaults

\* the individuals given to the operators: sampled ones, which sum to 1
OpIndividuals == {SimplexSampling(d) : d \in DirichletDraws}

\* the populations given to the mutation
OpPopulations == {<<x>> : x \in OpIndividuals} \cup (OpIndividuals \X OpIndividuals)

\* np.random.random() of the crossover, as <<numerator, denominator>>:
\* 0, 2^-17, 1/2, 1 - 2^15/3^16, 1 - 2^-17
CrossoverDraws ==
    {<<0, 1>>, <<1, 131072>>, <<1, 2>>, <<43013953, 43046721>>, <<131071, 131072>>}

\* np.random.random() of the mutation: 0, 2^-22, 1/2, 1 - 2^-22
MutationDraws == {<<0, 1>>, <<1, 4194304>>, <<1, 2>>, <<4194303, 4194304>>}

\* num / den in lowest terms
Frac(num, den) == <<num \div Gcd(num, den), den \div Gcd(num, den)>>

RECURSIVE Power(_, _)
Power(b, e) == IF e = 0 THEN 1 ELSE b * Power(b, e - 1)

\* x ** (1.0 / n) for a fraction x in lowest terms whose n-th root is a
\* fraction of numbers up to 3 (up to 2 when 3^n exceeds 32 bits)
RootN(x, n) ==
    CHOOSE r \in (0..(IF n > 19 THEN 2 ELSE 3)) \X (1..(IF n > 19 THEN 2 ELSE 3)) :
        Power(r[1], n) = x[1] /\ Power(r[2], n) = x[2]

\* beta of SimplexCrossover._do for the draw u
CrossoverBeta(u, eta) ==
    IF 2 * u[1] <= u[2]
    THEN RootN(Frac(2 * u[1], u[2]), eta + 1)
    ELSE RootN(Frac(u[2], 2 * (u[2] - u[1])), eta + 1)

\* delta_q of SimplexMutation._do for the draw u
MutationDeltaQ(u, eta) ==
    IF 2 * u[1] < u[2]
    THEN LET r == RootN(Frac(2 * u[1], u[2]), eta + 1) IN <<r[1] - r[2], r[2]>>
    ELSE LET r == RootN(Frac(2 * (u[2] - u[1]), u[2]), eta + 1) IN <<r[2] - r[1], r[2]>>

\* SimplexCrossover._do for one mating of the parents x1, x2 with the draw u
Crossover(x1, x2, u) ==
    LET beta == CrossoverBeta(u, DefaultCrossoverEta)
    IN  /\ opKind' = "crossover"
        /\ opX' = <<Normalize(x1), Normalize(x2)>>
        /\ opIdx' = <<>>
        /\ opCoef' = <<beta>>
        /\ opRaw' = <<CrossoverRaw(Normalize(x1), Normalize(x2), beta),
                      CrossoverRaw(Normalize(x2), Normalize(x1), beta)>>
        /\ opOut' = <<SimplexCrossover(x1, x2, beta), SimplexCrossover(x2, x1, beta)>>

\* SimplexMutation._do for the population X; draws[k] = <<idx1, idx2, u>> are
\* the random numbers of its k-th iteration
Mutation(X, draws) ==
    LET delta == [k \in 1..Len(X) |-> MutationDeltaQ(draws[k][3], DefaultMutationEta)]
    IN  /\ opKind' = "mutation"
        /\ opX' = [k \in 1..Len(X) |-> Normalize(X[k])]
        /\ opIdx' = [k \in 1..Len(X) |-> <<draws[k][1], draws[k][2]>>]
        /\ opCoef' = delta
        /\ opRaw' = [k \in 1..Len(X) |->
                       MutationRaw(Normalize(X[k]), draws[k][1], draws[k][2], delta[k])]
        /\ opOut' = [k \in 1..Len(X) |->
                       SimplexMutation(X[k], draws[k][1], draws[k][2], delta[k])]

\* np.random.choice(n_var, 2, replace=False) and np.random.random()
OpMutationDraws(n_var) ==
    {d \in (1..n_var) \X (1..n_var) \X MutationDraws : d[1] # d[2]}

\* one call of each operator is followed
OpCrossover ==
    /\ opKind = "none"
    /\ \E x1, x2 \in OpIndividuals, u \in CrossoverDraws : Crossover(x1, x2, u)

OpMutation ==
    /\ opKind = "none"
    /\ \E X \in OpPopulations :
          \E draws \in [1..Len(X) -> OpMutationDraws(4)] : Mutation(X, draws)

OpIdle ==
    /\ opKind = "none"
    /\ opX = <<>>
    /\ opIdx = <<>>
    /\ opCoef = <<>>
    /\ opRaw = <<>>
    /\ opOut = <<>>

----------------------------------------------------------------------------
\* The backtest: BacktestService.executar_backtest.  A date is <<month, day>>,
\* months counted from January of a year without a leap day

MonthLength(m) == <<31, 28, 31, 30, 31, 30, 31, 31, 30, 31, 30, 31>>[(m % 12) + 1]

DateLess(a, b) == a[1] < b[1] \/ (a[1] = b[1] /\ a[2] < b[2])

DateLeq(a, b) == a = b \/ DateLess(a, b)

\* date + relativedelta(months=k): the day is cut to the length of the month
AddMonths(date, k) == <<date[1] + k, Min(date[2], MonthLength(date[1] + k))>>

\* the ids of the assets of tipo ACAO
BtAtivos == 1..4

\* the histories considered: a row per asset and month, dated the first or the
\* last day of the month; asset 4 starts late in the third
BtHistoricos ==
    {[a \in BtAtivos |-> {<<mo, 1>> : mo \in 20..30}],
     [a \in BtAtivos |-> {<<mo, MonthLength(mo)>> : mo \in 20..30}],
     [a \in BtAtivos |-> {<<mo, MonthLength(mo)>> : mo \in (IF a = 4 THEN 27 ELSE 20)..30}]}

HistoricoRows(h) == UNION {{[id_ativo |-> a, data |-> d] : d \in h[a]} : a \in BtAtivos}

\* the arguments of the calls considered
BtArguments ==
    [data_inicio : {<<24, 1>>, <<24, 31>>},
     data_fim : {<<23, 31>>, <<26, 15>>, <<26, 31>>},
     ids_ativos_restringidos : {{}, {4}, {3, 4}},
     frequencia_rebalanceamento_meses : {0, 1, 2},
     janela_otimizacao_meses : {1, 3}]

\* the while loop of executar_backtest and the final date appended
RECURSIVE DatasFrom(_, _, _)
DatasFrom(data_atual, data_fim, freq) ==
    IF DateLeq(data_atual, data_fim)
    THEN <<data_atual>> \o DatasFrom(AddMonths(data_atual, freq), data_fim, freq)
    ELSE <<>>

DatasRebalanceamento(data_inicio, data_fim, freq) ==
    LET datas == DatasFrom(data_inicio, data_fim, freq)
    IN  IF datas[Len(datas)] # data_fim THEN Append(datas, data_fim) ELSE datas

\* the rows the query of _buscar_dados_ate_data returns
OptimizationRows(rows, candidatos, data_referencia, janela_meses) ==
    {r \in rows : /\ r.id_ativo \in candidatos
                  /\ DateLeq(AddMonths(data_referencia, 0 - janela_meses), r.data)
                  /\ DateLeq(r.data, data_referencia)}

\* a query of _calcular_retorno_carteira that takes the row of data_inicio too
ScoreRowsFromStart(rows, ids_ativos, data_inicio, data_fim) ==
    {r \in rows : /\ r.id_ativo \in ids_ativos
                  /\ DateLeq(data_inicio, r.data)
                  /\ DateLeq(r.data, data_fim)}

\* the rows the query of _calcular_retorno_carteira returns
ScoreRows(rows, ids_ativos, data_inicio, data_fim) ==
    {r \in rows : /\ r.id_ativo \in ids_ativos
                  /\ DateLess(data_inicio, r.data)
                  /\ DateLeq(r.data, data_fim)}

\* executar_backtest up to the loop: the dates are generated; a data_inicio
\* after data_fim gives no date and datas_rebalanceamento[-1] raises; with a
\* frequency of 0 months the while loop does not end
BtBegin ==
    /\ btPc = "idle"
    /\ \E args \in BtArguments, h \in BtHistoricos :
          /\ btArgs' = Some(args)
          /\ btHistorico' = HistoricoRows(h)
          /\ IF DateLess(args.data_fim, args.data_inicio)
             THEN btPc' = "IndexError" /\ btDatas' = <<>>
             ELSE IF args.frequencia_rebalanceamento_meses = 0
             THEN btPc' = "diverges" /\ btDatas' = <<>>
             ELSE /\ btPc' = "loop"
                  /\ btDatas' = DatasRebalanceamento(args.data_inicio, args.data_fim,
                                                     args.frequencia_rebalanceamento_meses)
    /\ btI' = 1
    /\ btPeriodos' = <<>>
    /\ btResultados' = <<>>

\* one iteration of the loop: _otimizar_carteira_historica at
\* datas_rebalanceamento[i], which raises with fewer than 3 candidates, without
\* a row in the window or with fewer than 3 assets in it; then
\* _calcular_retorno_carteira up to datas_rebalanceamento[i + 1]
BtPeriodo ==
    /\ btPc = "loop"
    /\ btI <= Len(btDatas) - 1
    /\ LET args == btArgs[1]
           data_rebalanceamento == btDatas[btI]
           data_proxima == btDatas[btI + 1]
           candidatos == BtAtivos \ args.ids_ativos_restringidos
           lidas == OptimizationRows(btHistorico, candidatos, data_rebalanceamento,
                                     args.janela_otimizacao_meses)
           ativos_finais == {r.id_ativo : r \in lidas}
           periodo == [data_rebalanceamento |-> data_rebalanceamento,
                       data_proxima |-> data_proxima,
                       otimizacao |-> {}, carteira |-> {}, retorno |-> {}]
       IN  IF Cardinality(candidatos) < 3
           THEN /\ btPeriodos' = Append(btPeriodos, periodo)
                /\ UNCHANGED btResultados
           ELSE IF Cardinality(ativos_finais) < 3
           THEN /\ btPeriodos' = Append(btPeriodos, [periodo EXCEPT !.otimizacao = lidas])
                /\ UNCHANGED btResultados
           ELSE \E carteira \in {ativos_finais, {CHOOSE a \in ativos_finais :
                                                    \A b \in ativos_finais : a <= b}} :
                   /\ btPeriodos' = Append(btPeriodos,
                         [periodo EXCEPT !.otimizacao = lidas,
                                         !.carteira = carteira,
                                         !.retorno = ScoreRows(btHistorico, carteira,
                                                               data_rebalanceamento,
                                                               data_proxima)])
                   /\ btResultados' = Append(btResultados, data_rebalanceamento)
    /\ btI' = btI + 1
    /\ UNCHANGED <<btPc, btArgs, btHistorico, btDatas>>

\* the loop is over: self.resultados is returned
BtReturn ==
    /\ btPc = "loop"
    /\ btI > Len(btDatas) - 1
    /\ btPc' = "done"
    /\ UNCHANGED <<btArgs, btHistorico, btDatas, btI, btPeriodos, btResultados>>

BtIdle ==
    /\ btPc = "idle"
    /\ btArgs = None
    /\ btHistorico = {}
    /\ btDatas = <<>>
    /\ btI = 1
    /\ btPeriodos = <<>>
    /\ btResultados = <<>>

----------------------------------------------------------------------------
\* The labelling of the composition: the end of Nsga2OtimizacaoService.otimizar
\* and of BacktestService._otimizar_carteira_historica

\* the assets of tipo ACAO: id and ticker
LbAtivosAcao ==
    {[id |-> 1, ticker |-> "PETR4"], [id |-> 2, ticker |-> "VALE3"],
     [id |-> 3, ticker |-> "ITUB4"], [id |-> 4, ticker |-> "ABEV3"]}

\* the place of a ticker in the sorted index of tickers
TickerRank(ticker) ==
    CASE ticker = "ABEV3" -> 1
      [] ticker = "ITUB4" -> 2
      [] ticker = "PETR4" -> 3
      [] ticker = "VALE3" -> 4

\* the orders in which a query without ORDER BY may return a set of rows
QueryOrders(rows) ==
    {s \in [1..Cardinality(rows) -> rows] : \A i, j \in 1..Cardinality(rows) : i # j => s[i] # s[j]}

\* df.pivot(index='data', columns='ticker', ...).columns.tolist(): the tickers
\* in sorted order
PivotColumns(tickers) ==
    CHOOSE s \in [1..Cardinality(tickers) -> tickers] :
        \A i, j \in 1..Cardinality(tickers) : i < j => TickerRank(s[i]) < TickerRank(s[j])

\* the genotypes the selection may return, in thousandths, by number of assets
LbGenotypes(n) ==
    IF n = 3 THEN {<<500, 300, 200>>, <<1, 499, 500>>}
    ELSE {<<400, 300, 200, 100>>, <<250, 250, 250, 250>>, <<0, 1, 499, 500>>}

\* composicao_final before the normalisation: the i-th asset of the list with
\* pesos_otimos[i], when that exceeds 0.001
RECURSIVE ComposicaoFinal(_, _, _)
ComposicaoFinal(ativos, pesos_otimos, i) ==
    IF i = 0 THEN <<>>
    ELSE IF pesos_otimos[i] > 1
    THEN Append(ComposicaoFinal(ativos, pesos_otimos, i - 1),
                [id_ativo |-> ativos[i].id, ticker |-> ativos[i].ticker,
                 peso |-> pesos_otimos[i]])
    ELSE ComposicaoFinal(ativos, pesos_otimos, i - 1)

\* the data preparation, the run and the labelling: the assets come in the
\* order of the query, the columns of the return matrix in the order of the
\* pivot, and weight i of the genotype goes to asset i of the list
LbOtimizar ==
    /\ lbVia = "none"
    /\ \E via \in {"otimizar", "backtest"}, restringidos \in {{}, {1}, {4}} :
          \E ativos \in QueryOrders({a \in LbAtivosAcao : a.id \notin restringidos}) :
             \E pesos_otimos \in LbGenotypes(Len(ativos)) :
                /\ lbVia' = via
                /\ lbAtivos' = ativos
                /\ lbTickers' = PivotColumns({ativos[i].ticker : i \in 1..Len(ativos)})
                /\ lbPesos' = pesos_otimos
                /\ lbComposicao' = ComposicaoFinal(ativos, pesos_otimos, Len(ativos))

LbIdle ==
    /\ lbVia = "none"
    /\ lbAtivos = <<>>
    /\ lbTickers = <<>>
    /\ lbPesos = <<>>
    /\ lbComposicao = <<>>

----------------------------------------------------------------------------
\* every part as it is after construction
AllIdle ==
    /\ StoreIdle /\ GridIdle /\ GaIdle /\ TuneIdle
    /\ TrackerIdle /\ SelectionIdle /\ CvarIdle /\ OtIdle
    /\ OpIdle /\ HvIdle /\ SessionIdle /\ CaIdle
    /\ BtIdle /\ LbIdle

InitStore == AllIdle

InitGrid == AllIdle

InitGA == AllIdle


NextStore ==
    \/ SaveNoApp /\ UNCHANGED <<readerVars, gridVars, gaVars, tuneVars, trackVars, selVars, cvarVars, otVars, opVars, hvVars, ssVars, caVars, btVars, lbVars>>
    \/ \E df \in DfChoices : SaveBegin(df) /\ UNCHANGED <<readerVars, gridVars, gaVars, tuneVars, trackVars, selVars, cvarVars, otVars, opVars, hvVars, ssVars, caVars, btVars, lbVars>>
    \/ SaveRow /\ UNCHANGED <<readerVars, gridVars, gaVars, tuneVars, trackVars, selVars, cvarVars, otVars, opVars, hvVars, ssVars, caVars, btVars, lbVars>>
    \/ SaveCommit /\ UNCHANGED <<readerVars, gridVars, gaVars, tuneVars, trackVars, selVars, cvarVars, otVars, opVars, hvVars, ssVars, caVars, btVars, lbVars>>
    \/ \E n \in NumAtivosTuned, p \in Perfis \cup {""} :
          DeactivateAll(n, p) /\ UNCHANGED <<readerVars, gridVars, gaVars, tuneVars, trackVars, selVars, cvarVars, otVars, opVars, hvVars, ssVars, caVars, btVars, lbVars>>
    \/ \E n \in NumAtivosAsked, p \in Perfis, via \in {"service", "noapp"} :
          LookupBegin(n, p, via) /\ UNCHANGED <<gridVars, gaVars, tuneVars, trackVars, selVars, cvarVars, otVars, opVars, hvVars, ssVars, caVars, btVars, lbVars>>
    \/ LookupExact /\ UNCHANGED <<gridVars, gaVars, tuneVars, trackVars, selVars, cvarVars, otVars, opVars, hvVars, ssVars, caVars, btVars, lbVars>>
    \/ LookupProbe /\ UNCHANGED <<gridVars, gaVars, tuneVars, trackVars, selVars, cvarVars, otVars, opVars, hvVars, ssVars, caVars, btVars, lbVars>>
    \/ LookupFallback /\ UNCHANGED <<gridVars, gaVars, tuneVars, trackVars, selVars, cvarVars, otVars, opVars, hvVars, ssVars, caVars, btVars, lbVars>>
    \/ LookupClosest /\ UNCHANGED <<gridVars, gaVars, tuneVars, trackVars, selVars, cvarVars, otVars, opVars, hvVars, ssVars, caVars, btVars, lbVars>>
    \/ LookupReturn /\ UNCHANGED <<gridVars, gaVars, tuneVars, trackVars, selVars, cvarVars, otVars, opVars, hvVars, ssVars, caVars, btVars, lbVars>>

SpecStore == InitStore /\ [][NextStore]_vars

NextGrid ==
    \/ \E pops \in PopulationSizeLists, gens \in GenerationCountLists,
          r \in NRunsChoices, tl \in TimeLimits :
            GridBegin(pops, gens, r, tl) /\ UNCHANGED <<storeVars, gaVars, tuneVars, trackVars, selVars, cvarVars, otVars, opVars, hvVars, ssVars, caVars, btVars, lbVars>>
    \/ GridNextConfig /\ UNCHANGED <<storeVars, gaVars, tuneVars, trackVars, selVars, cvarVars, otVars, opVars, hvVars, ssVars, caVars, btVars, lbVars>>
    \/ GridRun /\ UNCHANGED <<storeVars, gaVars, tuneVars, trackVars, selVars, cvarVars, otVars, opVars, hvVars, ssVars, caVars, btVars, lbVars>>
    \/ GridSummary /\ UNCHANGED <<storeVars, gaVars, tuneVars, trackVars, selVars, cvarVars, otVars, opVars, hvVars, ssVars, caVars, btVars, lbVars>>

SpecGrid == InitGrid /\ [][NextGrid]_vars

NextGA ==
    \/ \E ds \in SUBSET DirichletDraws, g \in NGenChoices :
          GaOtimizar(ds, g) /\ UNCHANGED <<storeVars, gridVars, tuneVars, trackVars, selVars, cvarVars, otVars, opVars, hvVars, ssVars, caVars, btVars, lbVars>>
    \/ GaMate /\ UNCHANGED <<storeVars, gridVars, tuneVars, trackVars, selVars, cvarVars, otVars, opVars, hvVars, ssVars, caVars, btVars, lbVars>>
    \/ GaMutate /\ UNCHANGED <<storeVars, gridVars, tuneVars, trackVars, selVars, cvarVars, otVars, opVars, hvVars, ssVars, caVars, btVars, lbVars>>
    \/ GaSurvive /\ UNCHANGED <<storeVars, gridVars, tuneVars, trackVars, selVars, cvarVars, otVars, opVars, hvVars, ssVars, caVars, btVars, lbVars>>
    \/ GaFinish /\ UNCHANGED <<storeVars, gridVars, tuneVars, trackVars, selVars, cvarVars, otVars, opVars, hvVars, ssVars, caVars, btVars, lbVars>>

SpecGA == InitGA /\ [][NextGA]_vars

InitTune == AllIdle

NextTune ==
    \/ \E asset_ranges \in AssetRangeLists, nivel_risco \in NiveisRisco :
            TuneBegin(asset_ranges, nivel_risco) /\ UNCHANGED <<storeVars, gridVars, gaVars, trackVars, selVars, cvarVars, otVars, opVars, hvVars, ssVars, caVars, btVars, lbVars>>
    \/ TuneQuery /\ UNCHANGED <<storeVars, gridVars, gaVars, trackVars, selVars, cvarVars, otVars, opVars, hvVars, ssVars, caVars, btVars, lbVars>>
    \/ TuneGridSearch /\ UNCHANGED <<storeVars, gridVars, gaVars, trackVars, selVars, cvarVars, otVars, opVars, hvVars, ssVars, caVars, btVars, lbVars>>
    \/ TuneFinish /\ UNCHANGED <<storeVars, gridVars, gaVars, trackVars, selVars, cvarVars, otVars, opVars, hvVars, ssVars, caVars, btVars, lbVars>>

SpecTune == InitTune /\ [][NextTune]_vars

InitTracker == AllIdle

NextTracker ==
    \/ TrackerUpdate /\ UNCHANGED <<storeVars, gridVars, gaVars, tuneVars, selVars, cvarVars, otVars, opVars, hvVars, ssVars, caVars, btVars, lbVars>>
    \/ \E window \in Windows, threshold \in Thresholds :
          TrackerGetConvergenceGeneration(window, threshold)
              /\ UNCHANGED <<storeVars, gridVars, gaVars, tuneVars, selVars, cvarVars, otVars, opVars, hvVars, ssVars, caVars, btVars, lbVars>>
    \/ TrackerHasConverged /\ UNCHANGED <<storeVars, gridVars, gaVars, tuneVars, selVars, cvarVars, otVars, opVars, hvVars, ssVars, caVars, btVars, lbVars>>

SpecTracker == InitTracker /\ [][NextTracker]_vars

InitSelection == AllIdle

NextSelection ==
    \E objetivos \in SelectionFronts, nivel_risco \in NiveisRisco :
        Escolher(objetivos, nivel_risco)
            /\ UNCHANGED <<storeVars, gridVars, gaVars, tuneVars, trackVars, cvarVars, otVars, opVars, hvVars, ssVars, caVars, btVars, lbVars>>

SpecSelection == InitSelection /\ [][NextSelection]_vars

InitCvar == AllIdle

NextCvar ==
    \E perdas_validas \in LossVectors, alpha \in Alphas :
        Cvar(perdas_validas, alpha)
            /\ UNCHANGED <<storeVars, gridVars, gaVars, tuneVars, trackVars, selVars, otVars, opVars, hvVars, ssVars, caVars, btVars, lbVars>>

SpecCvar == InitCvar /\ [][NextCvar]_vars

InitOtimizar == AllIdle

NextOtimizar ==
    \/ \E restringidos \in RestringidosChoices, nivel_risco \in NiveisRisco,
          prazo_anos \in PrazoAnosChoices, banco \in HistoricoBancos,
          generations \in OtGenerations, tracker \in {None, Some(<<>>)} :
            OtOtimizar(restringidos, nivel_risco, prazo_anos, banco, generations, tracker)
                /\ UNCHANGED <<storeVars, gridVars, gaVars, tuneVars, trackVars, selVars, cvarVars, opVars, hvVars, ssVars, caVars, btVars, lbVars>>
    \/ OtGeneration /\ UNCHANGED <<storeVars, gridVars, gaVars, tuneVars, trackVars, selVars, cvarVars, opVars, hvVars, ssVars, caVars, btVars, lbVars>>
    \/ OtNotify /\ UNCHANGED <<storeVars, gridVars, gaVars, tuneVars, trackVars, selVars, cvarVars, opVars, hvVars, ssVars, caVars, btVars, lbVars>>
    \/ OtResult /\ UNCHANGED <<storeVars, gridVars, gaVars, tuneVars, trackVars, selVars, cvarVars, opVars, hvVars, ssVars, caVars, btVars, lbVars>>

SpecOtimizar == InitOtimizar /\ [][NextOtimizar]_vars

InitOperators == AllIdle

NextOperators ==
    \/ OpCrossover /\ UNCHANGED <<storeVars, gridVars, gaVars, tuneVars, trackVars, selVars, cvarVars, otVars, hvVars, ssVars, caVars, btVars, lbVars>>
    \/ OpMutation /\ UNCHANGED <<storeVars, gridVars, gaVars, tuneVars, trackVars, selVars, cvarVars, otVars, hvVars, ssVars, caVars, btVars, lbVars>>

SpecOperators == InitOperators /\ [][NextOperators]_vars

InitHypervolume == AllIdle

NextHypervolume ==
    \/ CalculateHypervolume /\ UNCHANGED <<storeVars, gridVars, gaVars, tuneVars, trackVars, selVars, cvarVars, otVars, opVars, ssVars, caVars, btVars, lbVars>>

SpecHypervolume == InitHypervolume /\ [][NextHypervolume]_vars

InitSession == AllIdle

NextSession ==
    \/ SessionGridSearch /\ UNCHANGED <<storeVars, gridVars, gaVars, tuneVars, trackVars, selVars, cvarVars, otVars, opVars, hvVars, caVars, btVars, lbVars>>
    \/ SessionSave /\ UNCHANGED <<storeVars, gridVars, gaVars, tuneVars, trackVars, selVars, cvarVars, otVars, opVars, hvVars, caVars, btVars, lbVars>>
    \/ SessionGetBest /\ UNCHANGED <<storeVars, gridVars, gaVars, tuneVars, trackVars, selVars, cvarVars, otVars, opVars, hvVars, caVars, btVars, lbVars>>
    \/ SessionExport /\ UNCHANGED <<storeVars, gridVars, gaVars, tuneVars, trackVars, selVars, cvarVars, otVars, opVars, hvVars, caVars, btVars, lbVars>>

SpecSession == InitSession /\ [][NextSession]_vars

InitConvergenceAnalysis == AllIdle

NextConvergenceAnalysis ==
    \/ \E args \in CaArguments :
          ConvergenceAnalysis(args) /\ UNCHANGED <<storeVars, gridVars, gaVars, tuneVars, trackVars, selVars, cvarVars, otVars, opVars, hvVars, ssVars, btVars, lbVars>>

SpecConvergenceAnalysis == InitConvergenceAnalysis /\ [][NextConvergenceAnalysis]_vars

InitBacktest == AllIdle

NextBacktest ==
    \/ BtBegin /\ UNCHANGED <<storeVars, gridVars, gaVars, tuneVars, trackVars, selVars, cvarVars, otVars, opVars, hvVars, ssVars, caVars, lbVars>>
    \/ BtPeriodo /\ UNCHANGED <<storeVars, gridVars, gaVars, tuneVars, trackVars, selVars, cvarVars, otVars, opVars, hvVars, ssVars, caVars, lbVars>>
    \/ BtReturn /\ UNCHANGED <<storeVars, gridVars, gaVars, tuneVars, trackVars, selVars, cvarVars, otVars, opVars, hvVars, ssVars, caVars, lbVars>>

SpecBacktest == InitBacktest /\ [][NextBacktest]_vars

InitLabelling == AllIdle

NextLabelling ==
    \/ LbOtimizar /\ UNCHANGED <<storeVars, gridVars, gaVars, tuneVars, trackVars, selVars, cvarVars, otVars, opVars, hvVars, ssVars, caVars, btVars>>

SpecLabelling == InitLabelling /\ [][NextLabelling]_vars

----------------------------------------------------------------------------
\* Properties of the Configuration Store

\* the lookup has returned through get_optimal_config and no commit changed
\* the table while it ran
StableLookup == rdPc = "done" /\ rdVia = "service" /\ version = rdVer

\* the asset counts a lookup for n is specified to try, in order
ProbeCounts(n) == <<n, n + 1, n - 1, n + 2, n - 2>>

\* does profile p have an active row within +-2 of n?
ActiveNear(rows, n, p) ==
    \E x \in rows : x.is_active /\ x.nivel_risco = p /\ Abs(x.num_ativos - n) <= 2

\* the first position of ProbeCounts(n) at which profile p has an active row
FirstHit(rows, n, p) ==
    CHOOSE k \in 1..5 :
        /\ \E x \in rows : x.is_active /\ x.nivel_risco = p
                             /\ x.num_ativos = ProbeCounts(n)[k]
        /\ \A j \in 1..(k - 1) :
              ~\E x \in rows : x.is_active /\ x.nivel_risco = p
                                 /\ x.num_ativos = ProbeCounts(n)[j]

NeutroReturns(rows, n) ==
    IF ActiveNear(rows, n, "neutro")
    THEN {Some(x) : x \in {y \in rows : /\ y.is_active
                                         /\ y.nivel_risco = "neutro"
                                         /\ y.num_ativos = ProbeCounts(n)[FirstHit(rows, n, "neutro")]}}
    ELSE IF \E x \in rows : x.is_active
         THEN {Some(x) : x \in {y \in rows :
                  /\ y.is_active
                  /\ \A z \in rows : z.is_active =>
                        Abs(y.num_ativos - n) <= Abs(z.num_ativos - n)}}
         ELSE {None}

MaxQueries == 13

C6_Deterministic ==
    rdPc = "done" => rdAgain = rdResult

\* the keys of df_optimal that have a row in the table
ExistingKeys(rows, df) ==
    {k \in {<<df[i].num_ativos, df[i].nivel_risco>> : i \in 1..Len(df)} :
        \E x \in rows : Key(x) = k}

\* the last row of df_optimal for key k
LastFor(df, k) ==
    df[CHOOSE i \in 1..Len(df) :
          /\ <<df[i].num_ativos, df[i].nivel_risco>> = k
          /\ \A j \in (i + 1)..Len(df) : <<df[j].num_ativos, df[j].nivel_risco>> # k]

\* C7: a save whose df_optimal has a key that is in the table already ends
\* without an integrity error, and afterwards the table holds the prior row,
\* inactive, and a new active row with the new hyperparameters.
C7_SaveExistingKey ==
    [][(svPc # "idle" /\ svPc' = "idle" /\ ExistingKeys(store, svDf) # {}) =>
          /\ svOutcome' = "ok"
          /\ \A k \in ExistingKeys(store, svDf) :
                /\ \A x \in store : Key(x) = k =>
                      [x EXCEPT !.is_active = FALSE] \in store'
                /\ \E y \in store' \ store :
                      /\ Key(y) = k
                      /\ y.is_active
                      /\ y.population_size = LastFor(svDf, k).population_size
                      /\ y.generations = LastFor(svDf, k).generations]_vars

\* C8: while a save runs, a key that has an active row keeps one in every
\* state a lookup can read: the deactivation of the old row and the insertion
\* of the new one become visible together or not at all.
C8_NeverZeroActive ==
    [][svPc # "idle" =>
          \A k \in {Key(x) : x \in store} :
              HasActive(store, k) => HasActive(store', k)]_vars

\* a save has set the old row of an active key inactive in its session and is
\* about to commit while a lookup is between two of its queries
C8_Witness ==
    /\ svPc = "commit"
    /\ svDeact # {}
    /\ \E x \in store : x.id \in svDeact /\ x.is_active
    /\ rdPc = "probe"
    /\ rdK > 1

\* the rows of df, one per key, that the table should serve after a save
ServedAfter(rows, df) ==
    \A i \in 1..Len(df) :
        LET k == <<df[i].num_ativos, df[i].nivel_risco>>
        IN  \E x \in rows :
               /\ Key(x) = k
               /\ x.is_active
               /\ x.population_size = LastFor(df, k).population_size
               /\ \A y \in rows : (Key(y) = k /\ y.is_active) => y = x

\* C9: a save that is run again with the same df_optimal, after a successful
\* or a failed run, completes and leaves exactly one active row per key, with
\* the hyperparameters of df_optimal.
C9_RerunSafe ==
    (svPc = "idle" /\ svRerunOf \in {"ok", "IntegrityError"}
                   /\ svOutcome \in {"ok", "IntegrityError"}) =>
        /\ svOutcome = "ok"
        /\ ServedAfter(store, svDf)

----------------------------------------------------------------------------
\* Properties of the grid search

Distinct(seq) == \A i, j \in 1..Len(seq) : i # j => seq[i] # seq[j]

\* the records of population p and generation count g
RecordsOf(results, p, g) ==
    {i \in 1..Len(results) :
        results[i].config = [population_size |-> p, generations |-> g]}

RECURSIVE TotalHypervolume(_, _)
TotalHypervolume(results, idx) ==
    IF idx = {} THEN 0
    ELSE LET i == CHOOSE j \in idx : TRUE
         IN  results[i].final_hypervolume + TotalHypervolume(results, idx \ {i})

\* C10: with no failed run and no time limit, a grid search over P distinct
\* population sizes and G distinct generation counts with n_runs = r collects
\* P*G*r records, one per configuration and run, and returns a summary of P*G
\* rows, one per (population_size, generations), each with the mean final
\* hypervolume of its runs, in descending order of that mean (2, 2, 2 gives
\* 8 records and 4 rows).
C10_GridSearchCounts ==
    (/\ gsPc = "done"
     /\ gsFailures = 0
     /\ gsTimeLimit = None
     /\ Distinct(gsPops)
     /\ Distinct(gsGens)) =>
        /\ gsOutcome = "ok"
        /\ Len(gsResults) = Len(gsPops) * Len(gsGens) * gsNRuns
        /\ gsSelf = gsResults
        /\ Len(gsSummary) = Len(gsPops) * Len(gsGens)
        /\ \A a \in 1..Len(gsPops), b \in 1..Len(gsGens) :
              /\ \A k \in 1..gsNRuns :
                    Cardinality({i \in RecordsOf(gsResults, gsPops[a], gsGens[b]) :
                                    gsResults[i].run_number = k}) = 1
              /\ \E i \in 1..Len(gsSummary) :
                    /\ gsSummary[i].population_size = gsPops[a]
                    /\ gsSummary[i].generations = gsGens[b]
                    /\ gsSummary[i].n = gsNRuns
                    /\ gsSummary[i].hv_sum =
                          TotalHypervolume(gsResults, RecordsOf(gsResults, gsPops[a], gsGens[b]))
                    /\ \A j \in 1..Len(gsSummary) :
                          (/\ gsSummary[j].population_size = gsPops[a]
                           /\ gsSummary[j].generations = gsGens[b]) => j = i
        /\ \A i, j \in 1..Len(gsSummary) :
              i < j => gsSummary[i].hv_sum * gsSummary[j].n
                          >= gsSummary[j].hv_sum * gsSummary[i].n
        /\ (Len(gsPops) = 2 /\ Len(gsGens) = 2 /\ gsNRuns = 2) =>
              Len(gsResults) = 8 /\ Len(gsSummary) = 4

\* populations {20, 40}, generations {5, 10}, two runs each, none failed: 8
\* records and 4 rows, and the sort moved a row of population 40 to the top
C10_Witness ==
    /\ gsPc = "done"
    /\ gsOutcome = "ok"
    /\ gsFailures = 0
    /\ gsTimeLimit = None
    /\ gsPops = <<20, 40>>
    /\ gsGens = <<5, 10>>
    /\ gsNRuns = 2
    /\ Len(gsResults) = 8
    /\ Len(gsSummary) = 4
    /\ gsSummary[1].population_size = 40
    /\ gsSummary[1].hv_sum > gsSummary[4].hv_sum

\* C11: when runs of a grid search without time limit raise, the failing runs
\* leave no record, every run of every configuration is still attempted, and
\* the call returns a summary of the successful runs instead of raising.
C11_FailedRunsSkipped ==
    (gsPc = "done" /\ gsTimeLimit = None /\ gsFailures > 0) =>
        /\ Len(gsResults) + gsFailures = Len(gsConfigs) * gsNRuns
        /\ gsOutcome = "ok"
        /\ \A i \in 1..Len(gsResults) :
              \E j \in 1..Len(gsSummary) :
                  /\ gsSummary[j].population_size = gsResults[i].config.population_size
                  /\ gsSummary[j].generations = gsResults[i].config.generations

\* C12: in a grid search that was given a time_limit, no configuration is
\* started once the elapsed time exceeds the limit, and whenever the loop is at
\* its head or has left it, every configuration that was started has had all
\* of its n_runs runs attempted.
C12_TimeLimitRespected ==
    [][gsTimeLimit # None =>
          /\ (gsPc = "config" /\ gsPc' = "run") => gsElapsed <= gsTimeLimit[1]
          /\ gsPc' \in {"config", "summary", "done"} =>
                Len(gsResults') + gsFailures' = (gsIdx' - 1) * gsNRuns']_vars

----------------------------------------------------------------------------
\* Properties of the adaptive tuning

\* C13: every optimization run launched by grid_search(ids_ativos,
\* nivel_risco, ...), also when adaptive_tuning_by_num_assets calls it for an
\* asset count, optimizes exactly the assets ids_ativos under the profile
\* nivel_risco, so that every optimal configuration recorded for
\* (num_ativos, nivel_risco) comes from runs on num_ativos assets under that
\* profile.
C13_RunsUseGivenProblem ==
    /\ \A run \in tnLaunched :
          /\ AtivosParaOtimizar(run.service) = run.ids_ativos
          /\ run.service.nivel_risco = run.nivel_risco
    /\ \A k \in 1..Len(tnOptimal) :
          \E run \in tnLaunched :
              /\ Cardinality(AtivosParaOtimizar(run.service)) = tnOptimal[k].num_ativos
              /\ run.service.nivel_risco = tnOptimal[k].nivel_risco

\* C21: if the Configuration Store write fails during adaptive tuning, every
\* TuningResult collected before the failure is still present and unchanged
\* in self.results, and export_results and get_best_configuration can still
\* be called on them afterwards: the failing save and every later step leave
\* self.results as it was, the export writes exactly those results and the
\* query returns a configuration.
C21_ResultsSurviveFailedSave ==
    /\ [](ssOutcome = "IntegrityError" =>
            /\ ssResults # <<>>
            /\ ssExported = None => ENABLED SessionExport
            /\ ssExported # None =>
                  ssExported[1] = [i \in 1..Len(ssResults) |-> TuningResultToDict(ssResults[i])]
            /\ ~ssAsked => ENABLED SessionGetBest
            /\ ssAsked => ssBest # None)
    /\ [][ssOutcome' = "IntegrityError" => ssResults' = ssResults]_vars

\* a save failed after two grid searches that both gave results, and both
\* export_results and get_best_configuration have been called since
C21_Witness ==
    /\ ssOutcome = "IntegrityError"
    /\ ssCalls = 2
    /\ Len(ssOptimal) = 2
    /\ Len(ssResults) >= 3
    /\ ssExported # None
    /\ ssAsked
    /\ ssBest # None

\* C30: for every sequence of grid_search calls on one service instance,
\* after a call returns a non-empty summary, get_best_configuration() returns
\* the configuration of that summary's first row.
C30_BestIsFirstSummaryRow ==
    (ssAsked /\ ssSummary # <<>>) =>
        ssBest = Some([population_size |-> ssSummary[1].population_size,
                       generations |-> ssSummary[1].generations])

\* C23: convergence_analysis(ids_ativos, nivel_risco, max_generations,
\* population_size, n_runs = k) performs k optimization runs, each with its
\* own new ConvergenceTracker, and returns an analysis with n_runs = k whose
\* raw_runs hold one history of max_generations generations per run.
C23_RunsAndHistories ==
    caPc = "done" =>
        /\ caOutcome = "ok"
        /\ caRuns = caArgs[1].n_runs
        /\ caTrackers = caArgs[1].n_runs
        /\ caAnalysis # None
        /\ caAnalysis[1].n_runs = caArgs[1].n_runs
        /\ Len(caAnalysis[1].raw_runs) = caArgs[1].n_runs
        /\ \A run \in 1..caArgs[1].n_runs :
              caAnalysis[1].raw_runs[run].generations = caArgs[1].max_generations

----------------------------------------------------------------------------
\* Properties of the backtest and of the labelling of the composition

\* C22: in executar_backtest, for every rebalancing date d the portfolio is
\* optimized only from history rows dated <= d within the optimization
\* window, its period return is computed only from rows dated after d and up
\* to the next rebalancing date, the rebalancing dates are processed in
\* strictly increasing order, and no row is used both to optimize and to
\* score the same portfolio.
C22_NoLookAhead ==
    \A k \in 1..Len(btPeriodos) :
        LET p == btPeriodos[k]
        IN  /\ p.data_rebalanceamento = btDatas[k]
            /\ p.data_proxima = btDatas[k + 1]
            /\ DateLess(p.data_rebalanceamento, p.data_proxima)
            /\ \A r \in p.otimizacao :
                  /\ DateLeq(r.data, p.data_rebalanceamento)
                  /\ DateLeq(AddMonths(p.data_rebalanceamento,
                                       0 - btArgs[1].janela_otimizacao_meses), r.data)
            /\ \A r \in p.retorno :
                  /\ DateLess(p.data_rebalanceamento, r.data)
                  /\ DateLeq(r.data, p.data_proxima)
                  /\ r.id_ativo \in p.carteira
            /\ p.otimizacao \cap p.retorno = {}

\* a finished backtest of at least two periods, all with a result and the
\* first two optimized and scored on rows, in which a row dated on the second
\* rebalancing date scored the first portfolio and optimized the second
C22_Witness ==
    /\ btPc = "done"
    /\ Len(btPeriodos) >= 2
    /\ Len(btResultados) = Len(btPeriodos)
    /\ \A k \in 1..2 :
          btPeriodos[k].otimizacao # {} /\ btPeriodos[k].retorno # {}
    /\ \E r \in btPeriodos[2].otimizacao :
          /\ r.data = btPeriodos[2].data_rebalanceamento
          /\ r \in btPeriodos[1].retorno

\* C27: in the composition returned by otimizar and by the backtest's
\* _otimizar_carteira_historica, the weight reported for an asset is the
\* component of the selected genotype at the index of that asset's column in
\* the return matrix, for every set and storage order of eligible assets.
C27_WeightsLabelTheirAsset ==
    lbVia # "none" =>
        \A e \in 1..Len(lbComposicao) :
            \A k \in 1..Len(lbTickers) :
                lbTickers[k] = lbComposicao[e].ticker => lbComposicao[e].peso = lbPesos[k]

----------------------------------------------------------------------------
\* Properties of the quality metrics and the convergence tracker

\* the 1-based positions at which a window of trWindow consecutive entries of
\* the history ends whose relative hypervolume improvement is below trThreshold
ConvergedWindows ==
    LET hv == [k \in 1..Len(trHistory) |-> trHistory[k].hypervolume]
    IN  {e \in trWindow..Len(trHistory) :
            ImprovementBelow(SubSeq(hv, e - trWindow + 1, e), trThreshold)}

\* C18: for a history of positive hypervolumes,
\* get_convergence_generation(W, threshold) returns the generation recorded in
\* the last entry of the earliest window of W consecutive entries whose
\* relative hypervolume improvement (max - min)/min is below the threshold,
\* and None when there is no such window.
C18_ConvergenceGeneration ==
    (trAsked /\ \A k \in 1..Len(trHistory) : trHistory[k].hypervolume > 0) =>
        IF ConvergedWindows = {} THEN trResult = None
        ELSE LET e == CHOOSE w \in ConvergedWindows : \A v \in ConvergedWindows : w <= v
             IN  trResult = Some(trHistory[e].generation)

\* C19: for a front of a single point calculate_all_metrics reports
\* pareto_size 1, spacing 0 and spread +infinity, and the tracker records
\* exactly these values.
C19_SinglePointFront ==
    (trMetrics # None /\ trMetrics[1].pareto_size = 1) =>
        /\ trMetrics[1].spacing = 0
        /\ trMetrics[1].spread = Inf
        /\ trHistory[Len(trHistory)].spacing = 0
        /\ trHistory[Len(trHistory)].spread = Inf
        /\ trHistory[Len(trHistory)].pareto_size = 1

\* the metrics of a single-point front were computed after those of a
\* two-point front with a finite spread
C19_Witness ==
    /\ trMetrics # None
    /\ trMetrics[1].pareto_size = 1
    /\ trMetrics[1].spread = Inf
    /\ Len(trHistory) = 2
    /\ trHistory[1].pareto_size = 2
    /\ trHistory[1].spread = <<1, 2>>

\* C28: whenever has_converged(W, threshold) answers true for a history,
\* get_convergence_generation(W, threshold) returns a generation for it, not
\* None: the two queries agree on whether convergence has been reached.
C28_QueriesAgree ==
    (trAsked /\ trConverged = Some(TRUE)) => trResult # None

\* C29: without a reference point given, the reference point used (the
\* maximum per objective times 1.1) is in every objective no smaller than the
\* value of every front member, so the sampling box has non-negative side
\* lengths and the hypervolume returned is non-negative, for every non-empty
\* front, whatever the sign of its objective values.
C29_ReferencePointBeyondFront ==
    (hvAsked /\ hvFront # <<>>) =>
        /\ \A k \in 1..Len(hvFront) : \A i \in 1..3 : hvRefPoint[i] >= 10 * hvFront[k][i]
        /\ \A i \in 1..3 : hvSides[i] >= 0
        /\ hvResult >= 0

----------------------------------------------------------------------------
\* Properties of the front selection policies

\* score_k >= score_l for the score norm_return*w_return -
\* norm_variance*w_variance - norm_cvar*w_cvar, with each column min-max
\* normalized (a zero-range column counts as 0.5) and w in tenths
FullScoreGeq(obj, w, k, l) ==
    LET r(i) == ColumnMax(obj, i) - ColumnMin(obj, i)
        den(i) == IF r(i) = 0 THEN 2 ELSE r(i)
        num(i, m) == IF r(i) = 0 THEN 1 ELSE obj[m][i] - ColumnMin(obj, i)
        score(m) == num(1, m) * w[1] * den(2) * den(3)
                      - num(2, m) * w[2] * den(1) * den(3)
                      - num(3, m) * w[3] * den(1) * den(2)
    IN  score(k) >= score(l)

\* the first row of the largest full score
BestByFullScore(objetivos, w) ==
    LET obj == [k \in 1..Len(objetivos) |->
                   <<-objetivos[k][1], objetivos[k][2], objetivos[k][3]>>]
    IN  CHOOSE k \in 1..Len(obj) :
            /\ \A l \in 1..Len(obj) : FullScoreGeq(obj, w, k, l)
            /\ \A l \in 1..(k - 1) : ~FullScoreGeq(obj, w, l, k)

\* C16: for every front and every profile of the table, the optimizer's policy
\* and the backtest's policy both return the first row with the largest score
\* norm_return*w_return - norm_variance*w_variance - norm_cvar*w_cvar under
\* the profile's weights, hence the same row.
C16_SamePolicy ==
    (slObjetivos # <<>> /\ slNivelRisco \in {"conservador", "moderado", "arrojado"}) =>
        /\ slOtimizador = Returned(BestByFullScore(slObjetivos, PesosPerfil[slNivelRisco]))
        /\ slBacktest = Returned(BestByFullScore(slObjetivos, PesosPerfilBacktest[slNivelRisco]))
        /\ slOtimizador = slBacktest

----------------------------------------------------------------------------
\* Properties of the tail risk

\* the sum of the k largest of the losses
RECURSIVE SumOfLargest(_, _)
SumOfLargest(losses, k) ==
    IF k = 0 \/ losses = {} THEN 0
    ELSE LET i == CHOOSE m \in losses : \A l \in losses : cvPerdas[m] >= cvPerdas[l]
         IN  cvPerdas[i] + SumOfLargest(losses \ {i}, k - 1)

\* the returned value is the fraction a/b (b > 0)
ResultIs(a, b) ==
    IF cvResult.root
    THEN a >= 0 /\ cvResult.num * b * b = a * a * cvResult.den
    ELSE cvResult.num * b = a * cvResult.den

\* C17: for every vector of n finite losses and every alpha, _calcular_cvar
\* returns the mean of the k = max(1, floor(alpha*n)) largest losses; for the
\* losses 1, 2, 3, 4, 5 and alpha = 0.2 this is 5.
C17_CvarIsTailMean ==
    cvPerdas # <<>> =>
        LET n == Len(cvPerdas)
            fl == (cvAlpha[1] * n) \div cvAlpha[2]
            k == IF fl > 1 THEN fl ELSE 1
        IN  /\ ResultIs(SumOfLargest(1..n, k), k)
            /\ (cvPerdas = <<1, 2, 3, 4, 5>> /\ cvAlpha = <<1, 5>>) => ResultIs(5, 1)

----------------------------------------------------------------------------
\* Properties of the optimization as a whole

\* the assets of tipo ACAO that the service does not restrict
EligibleAssets == AtivosAcao \ otRestringidos

\* the months of history the horizon asks for: 1.5 times the horizon, at
\* least 24
MonthsRequired == IF otPrazoAnos * 18 > 24 THEN otPrazoAnos * 18 ELSE 24

\* the eligible assets that pass the minimum-history filter
AfterFilter == {a \in EligibleAssets : Cardinality(otBanco[a]) >= MonthsRequired}

\* the months for which every asset that passed the filter has a price
AlignedMonths ==
    {mes \in UNION {otBanco[a] : a \in AtivosAcao} : \A a \in AfterFilter : mes \in otBanco[a]}

\* C14: when fewer than 3 eligible assets exist, before or after the
\* minimum-history filter, or the aligned price history is empty, otimizar
\* raises ValueError before the problem and the population exist: no genotype
\* is evaluated, no generation runs and no composition is returned.
C14_DataErrorsFirst ==
    (/\ otPc # "idle"
     /\ \/ Cardinality(EligibleAssets) < 3
        \/ Cardinality(AfterFilter) < 3
        \/ AlignedMonths = {}) =>
        /\ otPc = "done"
        /\ otOutcome = "ValueError"
        /\ otProblema = None
        /\ otPopulation = <<>>
        /\ otEvaluations = 0
        /\ otGen = 0
        /\ otComposicao = {}
        /\ otTracker \in {None, Some(<<>>)}

\* otimizar raised because only two of four eligible assets have the history
\* that a horizon of one year asks for
C14_Witness ==
    /\ otPc = "done"
    /\ otOutcome = "ValueError"
    /\ otPrazoAnos = 1
    /\ Cardinality(EligibleAssets) = 4
    /\ Cardinality(AfterFilter) = 2
    /\ otEvaluations = 0

\* C15: when the risk profile of the service is none of 'conservador',
\* 'moderado', 'arrojado', otimizar fails with an error before any population
\* is created: no genotype is evaluated and no generation runs.
C15_ProfileCheckedFirst ==
    (otPc # "idle" /\ otNivelRisco \notin {"conservador", "moderado", "arrojado"}) =>
        /\ otPc = "done"
        /\ otOutcome \in {"ValueError", "KeyError"}
        /\ otPopulation = <<>>
        /\ otEvaluations = 0
        /\ otGen = 0

\* the history of the tracker attached to the run
TrackedHistory == otTracker[1]

\* C20: in a run with a fresh tracker attached the tracker is updated once per
\* generation: its history has one record, with all six columns, for each
\* generation completed (G records after a run of G generations), the
\* generation numbers recorded are strictly increasing, an update only appends
\* to the history, and it leaves the population as it was.
C20_OneUpdatePerGeneration ==
    /\ [](otTracker # None =>
            /\ Len(TrackedHistory) = IF otPc = "notify" THEN otGen - 1 ELSE otGen
            /\ (otPc = "done" /\ otOutcome # "ValueError") => Len(TrackedHistory) = otNGen
            /\ \A k \in 1..Len(TrackedHistory) :
                  /\ DOMAIN TrackedHistory[k] =
                        {"generation", "hypervolume", "spread", "spacing", "pareto_size",
                         "best_fitness"}
                  /\ \A l \in 1..(k - 1) :
                        TrackedHistory[l].generation < TrackedHistory[k].generation)
    /\ [][(otPc # "idle" /\ otTracker # None) =>
            /\ Len(otTracker'[1]) >= Len(TrackedHistory)
            /\ SubSeq(otTracker'[1], 1, Len(TrackedHistory)) = TrackedHistory
            /\ otTracker' # otTracker => otPopulation' = otPopulation]_vars

\* a run of three generations with a tracker ended with a composition and
\* three records, the first for a front of one row and the last for a front
\* of two
C20_Witness ==
    /\ otPc = "done"
    /\ otOutcome = "ok"
    /\ otNGen = 3
    /\ otTracker # None
    /\ Len(TrackedHistory) = 3
    /\ TrackedHistory[1].pareto_size = 1
    /\ TrackedHistory[3].pareto_size = 2
    /\ TrackedHistory[3].generation = 3

----------------------------------------------------------------------------
\* Properties of the simplex operators

\* the child component c / (2 * bd * d1 * d2) lies between the components
\* a / d1 and b / d2 of the parents
BetweenParents(c, a, d1, b, d2, bd) ==
    LET lo == IF a * d2 <= b * d1 THEN a * 2 * bd * d2 ELSE b * 2 * bd * d1
        hi == IF a * d2 <= b * d1 THEN b * 2 * bd * d1 ELSE a * 2 * bd * d2
    IN  lo <= c /\ c <= hi

\* C25: for every blend factor beta the crossover draws, both children are
\* convex combinations of the two parents: the coefficients 0.5 * (1 + beta)
\* and 0.5 * (1 - beta) lie in [0, 1], every child component lies between the
\* parents' components, and each child sums to 1 before the clamp and the clip.
C25_ConvexChildren ==
    opKind = "crossover" =>
        LET bn == opCoef[1][1]
            bd == opCoef[1][2]
            p1 == opX[1]
            p2 == opX[2]
        IN  /\ 0 <= bd + bn /\ bd + bn <= 2 * bd
            /\ 0 <= bd - bn /\ bd - bn <= 2 * bd
            /\ \A i \in 1..Len(p1.num) :
                  /\ BetweenParents(opRaw[1].num[i], p1.num[i], p1.den, p2.num[i], p2.den, bd)
                  /\ BetweenParents(opRaw[2].num[i], p1.num[i], p1.den, p2.num[i], p2.den, bd)
            /\ Sum(opRaw[1].num) = opRaw[1].den
            /\ Sum(opRaw[2].num) = opRaw[2].den

\* what gene g of the k-th individual gained in the mutation, times the two
\* denominators
Gained(k, g) == opRaw[k].num[g] * opX[k].den - opX[k].num[g] * opRaw[k].den

\* C26: the mutation handles every individual it is given, and in an
\* individual that sums to 1 it changes, before the clip, no gene but the two
\* distinct genes selected: one loses and the other gains the same amount m
\* with |m| <= 0.2 * min(w_i, w_j); the sum is unchanged and no weight becomes
\* negative.
C26_TwoGeneTransfer ==
    opKind = "mutation" =>
        /\ Len(opRaw) = Len(opX)
        /\ Len(opOut) = Len(opX)
        /\ \A k \in 1..Len(opX) :
              LET i == opIdx[k][1]
                  j == opIdx[k][2]
                  w == opX[k]
                  cap == (IF w.num[i] < w.num[j] THEN w.num[i] ELSE w.num[j]) * opRaw[k].den
              IN  /\ i # j
                  /\ \A g \in 1..Len(w.num) : g \notin {i, j} => Gained(k, g) = 0
                  /\ Gained(k, j) = -Gained(k, i)
                  /\ 5 * Gained(k, j) <= cap
                  /\ -cap <= 5 * Gained(k, j)
                  /\ Sum(opRaw[k].num) = opRaw[k].den
                  /\ \A g \in 1..Len(w.num) : opRaw[k].num[g] >= 0

\* a population of two was mutated: in the first individual gene 1 lost to
\* gene 4 the whole fifth of the smaller weight, in the second gene 2 gained
\* from gene 3
C26_Witness ==
    /\ opKind = "mutation"
    /\ Len(opX) = 2
    /\ opIdx[1] = <<4, 1>>
    /\ opCoef[1] = <<-1, 1>>
    /\ Gained(1, 1) < 0
    /\ -5 * Gained(1, 1) =
          (IF opX[1].num[1] < opX[1].num[4] THEN opX[1].num[1] ELSE opX[1].num[4]) * opRaw[1].den
    /\ opX[1].num[1] # opX[1].num[4]
    /\ opIdx[2] = <<3, 2>>
    /\ Gained(2, 2) > 0

----------------------------------------------------------------------------
\* Properties of the optimizer

RECURSIVE TotalPeso(_)
TotalPeso(items) ==
    IF items = {} THEN 0
    ELSE LET it == CHOOSE x \in items : TRUE
         IN  it.peso_num + TotalPeso(items \ {it})

\* C1: whatever front the evolutionary loop ends with, the composition that
\* otimizar returns (weights of 0.001 or less dropped, the rest divided by
\* their sum) has weights that sum to 1 and none above peso_max = 0.30.
C1_ComposicaoValida ==
    (gaPc = "done" /\ gaOutcome = "ok") =>
        /\ gaComposicao # {}
        /\ \A it \in gaComposicao :
              /\ it.peso_den > 0
              /\ it.peso_den = TotalPeso(gaComposicao)
              /\ it.peso_num > 0
              /\ 100 * it.peso_num <= 30 * it.peso_den

\* otimizar returned the composition of a genotype that the second round of
\* mating and mutation produced, one that has a weight of exactly 0.30
C1_Witness ==
    /\ gaPc = "done"
    /\ gaOutcome = "ok"
    /\ gaNGen = 3
    /\ gaBest[1] \notin {SimplexSampling(d) : d \in DirichletDraws}
    /\ \E it \in gaComposicao : 100 * it.peso_num = 30 * it.peso_den
    /\ Cardinality(gaComposicao) = 4

\* C2: every genotype that the sampling, the crossover or the mutation
\* produces has weights that sum to 1, each between peso_min = 0.01 and
\* peso_max = 0.30, in every generation.
C2_GenotypesInBounds ==
    \A x \in gaPop \cup gaOff \cup {gaKids[k] : k \in 1..Len(gaKids)} :
        /\ Sum(x.num) = x.den
        /\ \A i \in 1..Len(x.num) :
              /\ 1 * x.den <= 100 * x.num[i]
              /\ 100 * x.num[i] <= 30 * x.den

====
